---- MODULE Spec2Model ----
(***************************************************************************)
(* A model of the ZModel -> Prisma schema compiler of zenstack             *)
(* (packages/schema/src/plugins/prisma/schema-generator.ts).               *)
(*                                                                         *)
(* AST nodes are records tagged by "type" (langium's $type).  A JavaScript *)
(* value that may be of several kinds is a record tagged by "t"; a scalar  *)
(* is held as its canonical text ("1", "true") next to that tag.  A call   *)
(* that may throw returns a completion record: Return(v) or Throw(e).      *)
(***************************************************************************)
EXTENDS Naturals, Sequences, FiniteSets, TLC

VARIABLES
    pc,             \* position of the run
    node,           \* the AST node handed to the operation under check
    prismaVersion,  \* what getPrismaVersion() returns in this process
    prisma,         \* the PrismaModel under construction
    result,         \* completion of the last operation
    options,        \* the PluginOptions of the run
    cursor,         \* the place of generate's loop in model.declarations
    warnings,       \* the warnings generate has collected
    disk,           \* the output directory and the output file
    events,         \* the calls generate has made, and how each ended, in order
    dmmf            \* the DMMF document handed to the hooks generator

run == <<options, cursor, warnings, disk, events, dmmf>>
vars == <<pc, node, prismaVersion, prisma, result, options, cursor, warnings, disk, events, dmmf>>

----------------------------------------------------------------------------
(* Bounds of the model                                                     *)

MaxItems == 2       \* arguments of an invocation / items of an array
MaxDepth == 3       \* nesting depth of the array chains
MaxAttrs == 2       \* attributes on one field or container
MaxFeatures == 2    \* entries of a source previewFeatures array

----------------------------------------------------------------------------
(* JavaScript values and completions                                       *)

Undefined == [t |-> "undefined"]
JsString(s) == [t |-> "string", v |-> s]
JsNumber(s) == [t |-> "number", v |-> s]
JsBoolean(b) == [t |-> "boolean", v |-> b]

\* JavaScript truthiness, as tested by `if (text)`
Truthy(x) ==
    CASE x.t = "string" -> x.v # ""
      [] x.t = "number" -> x.v # "0"
      [] x.t = "boolean" -> x.v = "true"
      [] OTHER -> FALSE

Return(v) == [ok |-> TRUE, value |-> v]
Throw(e) == [ok |-> FALSE, error |-> e]

\* the plugin's name, imported from '.'
name == "Prisma"

PluginError(plugin, message) ==
    [type |-> "PluginError", plugin |-> plugin, message |-> message]
\* an exception of the JavaScript runtime or of a library, not a PluginError
TypeError(message) == [type |-> "TypeError", message |-> message]
SyntaxError(message) == [type |-> "SyntaxError", message |-> message]
ReferenceNotResolved(message) == [type |-> "Error", message |-> message]

Range(s) == {s[i] : i \in 1..Len(s)}
SeqsUpTo(S, n) == UNION {[1..k -> S] : k \in 0..n}
Min(S) == CHOOSE x \in S : \A y \in S : x <= y

RECURSIVE Join(_, _)
\* Array.prototype.join
Join(texts, sep) ==
    IF texts = <<>> THEN ""
    ELSE IF Len(texts) = 1 THEN texts[1]
    ELSE texts[1] \o sep \o Join(Tail(texts), sep)

\* Array.prototype.map over a callback that may throw: the completions of the
\* callback in order; the first Throw is the completion of the whole map.
MapCompletion(completions) ==
    LET bad == {i \in 1..Len(completions) : ~completions[i].ok}
    IN  IF bad = {} THEN Return([i \in 1..Len(completions) |-> completions[i].value])
        ELSE completions[Min(bad)]

\* const x = call(...): The({ statements : x \in {call(...)} }) is the value of
\* the statements that follow, with the call made once and x bound to its completion
The(S) == CHOOSE v \in S : TRUE

----------------------------------------------------------------------------
(* Source AST: expressions                                                 *)

StringLiteral(v) == [type |-> "StringLiteral", value |-> v]
NumberLiteral(v) == [type |-> "NumberLiteral", value |-> v]
BooleanLiteral(v) == [type |-> "BooleanLiteral", value |-> v]
NullExpr == [type |-> "NullExpr"]
ThisExpr == [type |-> "ThisExpr"]
ArrayExpr(items) == [type |-> "ArrayExpr", items |-> items]
\* a resolved reference holds the declaration's name
ReferenceExpr(target, args) == [type |-> "ReferenceExpr", target |-> target, args |-> args]
Argument(value) == [name |-> "", value |-> value]
NamedArgument(n, value) == [name |-> n, value |-> value]
InvocationExpr(function, args) ==
    [type |-> "InvocationExpr", function |-> function, args |-> args]
MemberAccessExpr(operand, member) ==
    [type |-> "MemberAccessExpr", operand |-> operand, member |-> member]

isStringLiteral(n) == n.type = "StringLiteral"
isLiteralExpr(n) == n.type \in {"StringLiteral", "NumberLiteral", "BooleanLiteral"}
isNullExpr(n) == n.type = "NullExpr"
isArrayExpr(n) == n.type = "ArrayExpr"
isReferenceExpr(n) == n.type = "ReferenceExpr"
isInvocationExpr(n) == n.type = "InvocationExpr"

\* value.toString() of a literal's value
LiteralToString(n) == n.value

----------------------------------------------------------------------------
(* Expression translator                                                   *)

PrismaFunctionCallArg(n, value) == [name |-> n, value |-> value]
PrismaFunctionCall(func, args) == [func |-> func, args |-> args]
PrismaFieldReferenceArg(n, value) == [name |-> n, value |-> value]
PrismaFieldReference(field, args) == [field |-> field, args |-> args]
PrismaAttributeArgValue(type, value) == [type |-> type, value |-> value]
PrismaAttributeArg(n, value) == [name |-> n, value |-> value]

\* the callback of node.args.map in makeFunctionCall
FunctionCallArgOf(arg) ==
    IF isStringLiteral(arg.value)
    THEN Return(PrismaFunctionCallArg(arg.name, "\"" \o arg.value.value \o "\""))
    ELSE IF isLiteralExpr(arg.value)
    THEN Return(PrismaFunctionCallArg(arg.name, LiteralToString(arg.value)))
    ELSE IF isNullExpr(arg.value)
    THEN Return(PrismaFunctionCallArg(arg.name, "null"))
    ELSE Throw(PluginError(name, "Function call argument must be literal or null"))

\* a mutation of makeFunctionCall: the otherwise branch renders instead of throwing
makeFunctionCall_NoThrow(n) ==
    Return(PrismaFunctionCall(n.function,
        [i \in 1..Len(n.args) |->
            IF FunctionCallArgOf(n.args[i]).ok THEN FunctionCallArgOf(n.args[i]).value
            ELSE PrismaFunctionCallArg(n.args[i].name, "null")]))

makeFunctionCall(n) ==
    The({ IF args.ok THEN Return(PrismaFunctionCall(n.function, args.value)) ELSE args :
            args \in {MapCompletion([i \in 1..Len(n.args) |-> FunctionCallArgOf(n.args[i])])} })

\* the literal branch of makeAttributeArgValue: match(node.$type)...exhaustive()
LiteralArgType(n) ==
    CASE n.type = "StringLiteral" -> "String"
      [] n.type = "NumberLiteral" -> "Number"
      [] n.type = "BooleanLiteral" -> "Boolean"

\* a mutation of makeAttributeArgValue: the final branch returns a value
\* instead of throwing, also for the items of an array
RECURSIVE makeAttributeArgValue_NoThrow(_)
makeAttributeArgValue_NoThrow(n) ==
    IF isLiteralExpr(n)
    THEN Return(PrismaAttributeArgValue(LiteralArgType(n), n.value))
    ELSE IF isArrayExpr(n)
    THEN The({ IF items.ok THEN Return(PrismaAttributeArgValue("Array", items.value))
                ELSE items :
                   items \in {MapCompletion(
                       [i \in 1..Len(n.items) |-> makeAttributeArgValue_NoThrow(n.items[i])])} })
    ELSE IF isReferenceExpr(n)
    THEN Return(PrismaAttributeArgValue("FieldReference",
             PrismaFieldReference(n.target,
                 [i \in 1..Len(n.args) |->
                     PrismaFieldReferenceArg(n.args[i].name, n.args[i].value)])))
    ELSE IF isInvocationExpr(n)
    THEN The({ IF fc.ok THEN Return(PrismaAttributeArgValue("FunctionCall", fc.value))
                ELSE fc :
                   fc \in {makeFunctionCall(n)} })
    ELSE Return(PrismaAttributeArgValue("String", n.type))

RECURSIVE makeAttributeArgValue(_)
makeAttributeArgValue(n) ==
    IF isLiteralExpr(n)
    THEN Return(PrismaAttributeArgValue(LiteralArgType(n), n.value))
    ELSE IF isArrayExpr(n)
    THEN The({ IF items.ok THEN Return(PrismaAttributeArgValue("Array", items.value))
                ELSE items :
                   items \in {MapCompletion(
                       [i \in 1..Len(n.items) |-> makeAttributeArgValue(n.items[i])])} })
    ELSE IF isReferenceExpr(n)
    THEN Return(PrismaAttributeArgValue("FieldReference",
             PrismaFieldReference(n.target,
                 [i \in 1..Len(n.args) |->
                     PrismaFieldReferenceArg(n.args[i].name, n.args[i].value)])))
    ELSE IF isInvocationExpr(n)
    THEN The({ IF fc.ok THEN Return(PrismaAttributeArgValue("FunctionCall", fc.value))
                ELSE fc :
                   fc \in {makeFunctionCall(n)} })
    ELSE Throw(PluginError(name,
             "Unsupported attribute argument expression type: " \o n.type))

makeAttributeArg(arg) ==
    The({ IF value.ok THEN Return(PrismaAttributeArg(arg.name, value.value)) ELSE value :
            value \in {makeAttributeArgValue(arg.value)} })

----------------------------------------------------------------------------
(* Source AST: attributes and declarations                                 *)

MODEL_PASSTHROUGH_ATTR == "@@prisma.passthrough"
FIELD_PASSTHROUGH_ATTR == "@prisma.passthrough"

\* a langium Reference: its text and, when the linker resolved it, its target
Reference(refText, ref) == [refText |-> refText, ref |-> ref]
\* an attribute declaration of the ZModel library: its name and the
\* attributes put on the declaration itself (each a reference to a declaration)
AttributeDecl(n, attributes) == [name |-> n, attributes |-> attributes]
InternalAttribute(decl) == [decl |-> decl]
DataModelAttribute(decl, args) == [type |-> "DataModelAttribute", decl |-> decl, args |-> args]
DataModelFieldAttribute(decl, args) ==
    [type |-> "DataModelFieldAttribute", decl |-> decl, args |-> args]

\* resolved(ref) of the SDK: the target of a reference, or an Error
resolved(ref) ==
    IF ref.ref = Undefined
    THEN Throw(ReferenceNotResolved("Reference not resolved: " \o ref.refText))
    ELSE Return(ref.ref)

\* getLiteral of the SDK: the scalar value of a literal expression, or undefined
getLiteral(expr) ==
    CASE expr.type = "StringLiteral" -> JsString(expr.value)
      [] expr.type = "NumberLiteral" -> JsNumber(expr.value)
      [] expr.type = "BooleanLiteral" -> JsBoolean(expr.value)
      [] OTHER -> Undefined

\* getStringLiteral of the validator utilities
getStringLiteral(expr) ==
    IF expr.type = "StringLiteral" THEN JsString(expr.value) ELSE Undefined

\* getAttribute of the SDK: the first attribute of the declaration with that name
getAttribute(decl, attrName) ==
    LET found == {i \in 1..Len(decl.attributes) :
                     decl.attributes[i].decl.refText = attrName}
    IN  IF found = {} THEN Undefined ELSE decl.attributes[Min(found)]

RECURSIVE streamAst(_)
\* langium's streamAst: the node and every node below it, as a sequence
streamAst(n) ==
    LET children ==
            CASE n.type = "ArrayExpr" -> n.items
              [] n.type = "InvocationExpr" -> [i \in 1..Len(n.args) |-> n.args[i].value]
              [] n.type = "MemberAccessExpr" -> <<n.operand>>
              [] OTHER -> <<>>
        below[i \in 0..Len(children)] ==
            IF i = 0 THEN <<>> ELSE below[i - 1] \o streamAst(children[i])
    IN  <<n>> \o below[Len(children)]

\* isAuthInvocation of the SDK
isAuthInvocation(n) == n.type = "InvocationExpr" /\ n.function = "auth"

\* ZModelCodeGenerator.generate of the SDK, for an attribute: its source text
zModelGenerator_generate(attr) ==
    attr.decl.refText \o (IF attr.args = <<>> THEN "" ELSE "(...)")

----------------------------------------------------------------------------
(* Target object model (prisma-builder)                                    *)

ModelFieldType(type, array, optional) == [type |-> type, array |-> array, optional |-> optional]
PrismaPassThroughAttribute(text) == [kind |-> "PassThroughAttribute", text |-> text]
PrismaFieldAttribute(n, args) == [kind |-> "FieldAttribute", name |-> n, args |-> args]
PrismaModelAttribute(n, args) == [kind |-> "ContainerAttribute", name |-> n, args |-> args]

\* new Model / new Enum: a container declaration with nothing in it
PrismaContainer(n, isView) ==
    [name |-> n, isView |-> isView, fields |-> <<>>, attributes |-> <<>>,
     documentations |-> <<>>]
\* container.addField(...): the field is appended to the container
addField(container, field) == [container EXCEPT !.fields = Append(@, field)]
\* declaration.addComment(...)
addComments(declaration, comments) ==
    [declaration EXCEPT !.documentations = @ \o comments]

----------------------------------------------------------------------------
(* Attribute classifier and attribute translation                          *)

\* a mutation of isPrismaAttribute: the marker attribute alone decides
isPrismaAttribute_MarkerOnly(attr) ==
    IF attr.decl.ref = Undefined THEN FALSE
    ELSE \E i \in 1..Len(attr.decl.ref.attributes) :
            /\ attr.decl.ref.attributes[i].decl.ref # Undefined
            /\ attr.decl.ref.attributes[i].decl.ref.name = "@@@prisma"

isPrismaAttribute(attr) ==
    IF attr.decl.ref = Undefined THEN FALSE
    ELSE LET attrDecl == resolved(attr.decl).value
         IN  \/ \E i \in 1..Len(attrDecl.attributes) :
                    /\ attrDecl.attributes[i].decl.ref # Undefined
                    /\ attrDecl.attributes[i].decl.ref.name = "@@@prisma"
             \/ attrDecl.name = MODEL_PASSTHROUGH_ATTR
             \/ attrDecl.name = FIELD_PASSTHROUGH_ATTR

\* attr.args.map((arg) => this.makeAttributeArg(arg))
makeAttributeArgs(attr) ==
    MapCompletion([i \in 1..Len(attr.args) |-> makeAttributeArg(attr.args[i])])

\* a mutation of makeFieldAttribute: the pass-through text is not tested
makeFieldAttribute_AnyText(attr) ==
    LET attrDecl == resolved(attr.decl)
    IN  IF ~attrDecl.ok THEN attrDecl
        ELSE IF attrDecl.value.name = FIELD_PASSTHROUGH_ATTR
        THEN IF attr.args = <<>>
             THEN Throw(TypeError("Cannot read properties of undefined (reading 'value')"))
             ELSE Return(PrismaPassThroughAttribute(getLiteral(attr.args[1].value)))
        ELSE The({ IF args.ok
                   THEN Return(PrismaFieldAttribute(attrDecl.value.name, args.value))
                   ELSE args :
                      args \in {makeAttributeArgs(attr)} })

\* a mutation of makeFieldAttribute: the pass-through attribute is translated
\* like any other attribute
makeFieldAttribute_Structured(attr) ==
    LET attrDecl == resolved(attr.decl)
    IN  IF ~attrDecl.ok THEN attrDecl
        ELSE The({ IF args.ok
                   THEN Return(PrismaFieldAttribute(attrDecl.value.name, args.value))
                   ELSE args :
                      args \in {makeAttributeArgs(attr)} })

makeFieldAttribute(attr) ==
    LET attrDecl == resolved(attr.decl)
    IN  IF ~attrDecl.ok THEN attrDecl
        ELSE IF attrDecl.value.name = FIELD_PASSTHROUGH_ATTR
        THEN IF attr.args = <<>>
             THEN Throw(TypeError("Cannot read properties of undefined (reading 'value')"))
             ELSE LET text == getLiteral(attr.args[1].value)
                  IN  IF Truthy(text) THEN Return(PrismaPassThroughAttribute(text))
                      ELSE Throw(PluginError(name,
                               "Invalid arguments for " \o FIELD_PASSTHROUGH_ATTR
                                   \o " attribute"))
        ELSE The({ IF args.ok
                   THEN Return(PrismaFieldAttribute(attrDecl.value.name, args.value))
                   ELSE args :
                      args \in {makeAttributeArgs(attr)} })

\* a call on a container: the container after the call, and the call's completion
Done(container) == [container |-> container, completion |-> Return(Undefined)]
Failed(container, completion) == [container |-> container, completion |-> completion]

generateContainerAttribute(container, attr) ==
    LET attrDecl == resolved(attr.decl)
        pushed(a) == [container EXCEPT !.attributes = Append(@, a)]
    IN  IF ~attrDecl.ok THEN Failed(container, attrDecl)
        ELSE IF attrDecl.value.name = MODEL_PASSTHROUGH_ATTR
        THEN IF attr.args = <<>>
             THEN Failed(container,
                      Throw(TypeError("Cannot read properties of undefined (reading 'value')")))
             ELSE LET text == getLiteral(attr.args[1].value)
                  IN  IF Truthy(text) THEN Done(pushed(PrismaPassThroughAttribute(text)))
                      ELSE Done(container)
        ELSE The({ IF args.ok
                   THEN Done(pushed(PrismaModelAttribute(attrDecl.value.name, args.value)))
                   ELSE Failed(container, args) :
                      args \in {makeAttributeArgs(attr)} })

----------------------------------------------------------------------------
(* Models, enums and their fields                                          *)

DataModelFieldType(type, reference, unsupported, array, optional) ==
    [type |-> type, reference |-> reference, unsupported |-> unsupported,
     array |-> array, optional |-> optional]
DataModelField(n, type, attributes, comments) ==
    [name |-> n, type |-> type, attributes |-> attributes, comments |-> comments]
EnumField(n, attributes) == [name |-> n, attributes |-> attributes]
DataModel(n, isView, fields, attributes, comments) ==
    [type |-> "DataModel", name |-> n, isView |-> isView, fields |-> fields,
     attributes |-> attributes, comments |-> comments]
Enum(n, fields, attributes, comments) ==
    [type |-> "Enum", name |-> n, fields |-> fields, attributes |-> attributes,
     comments |-> comments]

\* a mutation of getUnsupportedFieldType: the raw type name without Unsupported("...")
getUnsupportedFieldType_Raw(fieldType) ==
    IF fieldType.unsupported # Undefined
    THEN getStringLiteral(fieldType.unsupported.value)
    ELSE Undefined

getUnsupportedFieldType(fieldType) ==
    IF fieldType.unsupported # Undefined
    THEN LET value == getStringLiteral(fieldType.unsupported.value)
         IN  IF Truthy(value) THEN JsString("Unsupported(\"" \o value.v \o "\")")
             ELSE Undefined
    ELSE Undefined

\* a mutation of hasDefaultWithAuth: @default is looked for in the first place only
hasDefaultWithAuth_FirstAttribute(field) ==
    IF field.attributes = <<>> THEN FALSE
    ELSE IF field.attributes[1].decl.refText # "@default" THEN FALSE
    ELSE IF field.attributes[1].args = <<>> THEN FALSE
    ELSE LET nodes == streamAst(field.attributes[1].args[1].value)
         IN  \E i \in 1..Len(nodes) : isAuthInvocation(nodes[i])

hasDefaultWithAuth(field) ==
    LET defaultAttr == getAttribute(field, "@default")
    IN  IF defaultAttr = Undefined THEN FALSE
        ELSE IF defaultAttr.args = <<>> THEN FALSE
        ELSE LET nodes == streamAst(defaultAttr.args[1].value)
             IN  \E i \in 1..Len(nodes) : isAuthInvocation(nodes[i])

\* field.attributes.filter(isPrismaAttribute).map(makeFieldAttribute)
makePrismaFieldAttributes(field) ==
    LET kept == SelectSeq(field.attributes, isPrismaAttribute)
    IN  MapCompletion([i \in 1..Len(kept) |-> makeFieldAttribute(kept[i])])

\* a mutation of getAttributesToGenerate: no test for auth() in @default
getAttributesToGenerate_NoAuthTest(field) == makePrismaFieldAttributes(field)

\* a mutation of getAttributesToGenerate: every resolved attribute is translated
getAttributesToGenerate_NoFilter(field) ==
    IF hasDefaultWithAuth(field) THEN Return(<<>>)
    ELSE LET kept == SelectSeq(field.attributes, LAMBDA a : a.decl.ref # Undefined)
         IN  MapCompletion([i \in 1..Len(kept) |-> makeFieldAttribute(kept[i])])

getAttributesToGenerate(field) ==
    IF hasDefaultWithAuth(field) THEN Return(<<>>)
    ELSE makePrismaFieldAttributes(field)

\* a mutation of documentationsOf: unresolved attributes are documented too
documentationsOf_Unresolved(attributes) ==
    LET nonPrismaAttributes == SelectSeq(attributes, LAMBDA a : ~isPrismaAttribute(a))
    IN  [i \in 1..Len(nonPrismaAttributes) |->
            "/// " \o zModelGenerator_generate(nonPrismaAttributes[i])]

\* the '/// ' lines of the attributes that are resolved and not Prisma attributes
documentationsOf(attributes) ==
    LET nonPrismaAttributes ==
            SelectSeq(attributes, LAMBDA a : a.decl.ref # Undefined /\ ~isPrismaAttribute(a))
    IN  [i \in 1..Len(nonPrismaAttributes) |->
            "/// " \o zModelGenerator_generate(nonPrismaAttributes[i])]

\* a mutation of generateModelField: a field whose type is not resolved is left out
generateModelField_SkipUntyped(model, field, containerName) ==
    LET scalar == field.type.type
        referred == IF field.type.reference = Undefined THEN Undefined
                    ELSE IF field.type.reference.ref = Undefined THEN Undefined
                    ELSE JsString(field.type.reference.ref.name)
        fieldType == IF scalar # "" THEN JsString(scalar)
                     ELSE IF Truthy(referred) THEN referred
                     ELSE getUnsupportedFieldType(field.type)
    IN  IF ~Truthy(fieldType)
        THEN Done(model)
        ELSE The({ IF ~attributes.ok THEN Failed(model, attributes)
                   ELSE Done(addField(model,
                            [name |-> field.name,
                             type |-> ModelFieldType(fieldType.v, field.type.array,
                                          field.type.optional),
                             attributes |-> attributes.value,
                             documentations |->
                                 documentationsOf(field.attributes) \o field.comments])) :
                      attributes \in {getAttributesToGenerate(field)} })

\* the model after the call, and the call's completion
generateModelField(model, field, containerName) ==
    LET scalar == field.type.type
        referred == IF field.type.reference = Undefined THEN Undefined
                    ELSE IF field.type.reference.ref = Undefined THEN Undefined
                    ELSE JsString(field.type.reference.ref.name)
        fieldType == IF scalar # "" THEN JsString(scalar)
                     ELSE IF Truthy(referred) THEN referred
                     ELSE getUnsupportedFieldType(field.type)
    IN  IF ~Truthy(fieldType)
        THEN Failed(model,
                 Throw(PluginError(name, "Field type is not resolved: "
                     \o containerName \o "." \o field.name)))
        ELSE The({ IF ~attributes.ok THEN Failed(model, attributes)
                   ELSE Done(addField(model,
                            [name |-> field.name,
                             type |-> ModelFieldType(fieldType.v, field.type.array,
                                          field.type.optional),
                             attributes |-> attributes.value,
                             documentations |->
                                 documentationsOf(field.attributes) \o field.comments])) :
                      attributes \in {getAttributesToGenerate(field)} })

generateEnumField(enum, field) ==
    The({ IF ~attributes.ok THEN Failed(enum, attributes)
          ELSE Done(addField(enum,
                   [name |-> field.name,
                    attributes |-> attributes.value,
                    documentations |-> documentationsOf(field.attributes)])) :
             attributes \in {makePrismaFieldAttributes(field)} })

RECURSIVE generateModelFields_Reversed(_, _, _)
\* a mutation of generateModelFields: the fields are taken from the last to the first
generateModelFields_Reversed(model, fields, containerName) ==
    IF fields = <<>> THEN Done(model)
    ELSE The({ IF one.completion.ok
               THEN generateModelFields_Reversed(one.container,
                        SubSeq(fields, 1, Len(fields) - 1), containerName)
               ELSE one :
                  one \in {generateModelField(model, fields[Len(fields)], containerName)} })

RECURSIVE generateModelFields(_, _, _)
\* for (const field of decl.fields) this.generateModelField(model, field)
generateModelFields(model, fields, containerName) ==
    IF fields = <<>> THEN Done(model)
    ELSE The({ IF one.completion.ok
               THEN generateModelFields(one.container, Tail(fields), containerName)
               ELSE one :
                  one \in {generateModelField(model, Head(fields), containerName)} })

RECURSIVE generateEnumFields(_, _)
\* for (const field of decl.fields) this.generateEnumField(_enum, field)
generateEnumFields(enum, fields) ==
    IF fields = <<>> THEN Done(enum)
    ELSE The({ IF one.completion.ok THEN generateEnumFields(one.container, Tail(fields))
               ELSE one :
                  one \in {generateEnumField(enum, Head(fields))} })

RECURSIVE generateContainerAttributes(_, _)
\* for (const attr of attributes.filter(isPrismaAttribute)) generateContainerAttribute(..)
generateContainerAttributes(container, attributes) ==
    IF attributes = <<>> THEN Done(container)
    ELSE The({ IF one.completion.ok
               THEN generateContainerAttributes(one.container, Tail(attributes))
               ELSE one :
                  one \in {generateContainerAttribute(container, Head(attributes))} })

\* what follows the fields in generateModel and in generateEnum: the container
\* attributes, the '/// ' lines and the author's comments
generateContainerRest(withFields, decl) ==
    IF ~withFields.completion.ok THEN withFields
    ELSE The({ IF ~withAttributes.completion.ok THEN withAttributes
               ELSE Done(addComments(
                        addComments(withAttributes.container,
                            documentationsOf(decl.attributes)),
                        decl.comments)) :
                  withAttributes \in
                      {generateContainerAttributes(withFields.container,
                           SelectSeq(decl.attributes, isPrismaAttribute))} })

\* the PrismaModel after the call, and the call's completion; the model is
\* added before its fields are generated, so it is there when a field throws
generateModel(p, decl) ==
    The({ [prisma |-> [p EXCEPT !.models = Append(@, done.container)],
           completion |-> done.completion] :
             done \in {generateContainerRest(
                           generateModelFields(PrismaContainer(decl.name, decl.isView),
                               decl.fields, decl.name),
                           decl)} })

generateEnum(p, decl) ==
    The({ [prisma |-> [p EXCEPT !.enums = Append(@, done.container)],
           completion |-> done.completion] :
             done \in {generateContainerRest(
                           generateEnumFields(PrismaContainer(decl.name, FALSE), decl.fields),
                           decl)} })

----------------------------------------------------------------------------
(* Configuration blocks: data sources and generators                       *)

ConfigField(n, value) == [name |-> n, value |-> value]
ConfigInvocationArg(n, value) == [name |-> n, value |-> value]
ConfigInvocationExpr(n, args) == [type |-> "ConfigInvocationExpr", name |-> n, args |-> args]
ConfigArrayExpr(items) == [type |-> "ConfigArrayExpr", items |-> items]
GeneratorDecl(n, fields) == [type |-> "GeneratorDecl", name |-> n, fields |-> fields]
SimpleField(n, text) == [name |-> n, text |-> text]

\* a version of Prisma, as semver reads the text getPrismaVersion returns
Version(major, minor, patch) ==
    [t |-> "version", major |-> major, minor |-> minor, patch |-> patch]

\* semver.lt
semver_lt(a, b) ==
    \/ a.major < b.major
    \/ a.major = b.major /\ a.minor < b.minor
    \/ a.major = b.major /\ a.minor = b.minor /\ a.patch < b.patch

\* the JavaScript values JSON.parse yields here
JsArray(items) == [t |-> "array", v |-> items]

\* JSON.stringify of a string
Quoted(text) == "\"" \o text \o "\""
\* JSON.stringify of a JavaScript value
JSON_stringify(x) ==
    CASE x.t = "string" -> Quoted(x.v)
      [] x.t = "array" -> "[" \o Join([i \in 1..Len(x.v) |-> Quoted(x.v[i])], ",") \o "]"
      [] OTHER -> x.v

FeatureNames == {"extendedWhereUnique", "fieldReference", "fullTextSearch"}

\* the values whose JSON texts the model can meet: arrays of feature names as
\* long as a source array with both features added, and scalars
JsonValues ==
    {JsArray(l) : l \in SeqsUpTo(FeatureNames, MaxFeatures + 2)}
    \cup {JsString(n) : n \in FeatureNames \cup {"prisma-client-js"}}
    \cup {JsBoolean("true"), JsBoolean("false"), JsNumber("1")}

\* the JSON texts of a value: JSON.stringify's, and for an array also the
\* text with a blank after each comma
JsonTextsOf(x) ==
    IF x.t = "array"
    THEN {JSON_stringify(x), "[" \o Join([i \in 1..Len(x.v) |-> Quoted(x.v[i])], ", ") \o "]"}
    ELSE {JSON_stringify(x)}

\* JSON.parse: the value the text denotes, or a SyntaxError
JSON_parse(text) ==
    LET values == {x \in JsonValues : text \in JsonTextsOf(x)}
    IN  IF values = {} THEN Throw(SyntaxError("Unexpected token in JSON"))
        ELSE Return(CHOOSE x \in values : TRUE)

\* JSON.stringify(expr.value)
literalToText(expr) ==
    JSON_stringify(CASE expr.type = "StringLiteral" -> JsString(expr.value)
                     [] expr.type = "BooleanLiteral" -> JsBoolean(expr.value)
                     [] OTHER -> JsNumber(expr.value))

configInvocationArgToText(arg) == arg.name \o ": " \o literalToText(arg.value)

configArrayToText(expr) ==
    "[" \o Join([i \in 1..Len(expr.items) |->
                   IF isLiteralExpr(expr.items[i]) THEN literalToText(expr.items[i])
                   ELSE expr.items[i].name
                        \o (IF Len(expr.items[i].args) > 0
                            THEN "(" \o Join([j \in 1..Len(expr.items[i].args) |->
                                        configInvocationArgToText(expr.items[i].args[j])],
                                    ", ") \o ")"
                            ELSE "")],
               ", ") \o "]"

\* FunctionCall.toString of prisma-builder
FunctionCallToString(fc) ==
    fc.func \o "(" \o Join([i \in 1..Len(fc.args) |->
                              IF fc.args[i].name # ""
                              THEN fc.args[i].name \o ": " \o fc.args[i].value
                              ELSE fc.args[i].value], ", ") \o ")"

configExprToText(expr) ==
    IF isLiteralExpr(expr) THEN Return(literalToText(expr))
    ELSE IF isInvocationExpr(expr)
    THEN LET fc == makeFunctionCall(expr)
         IN  IF fc.ok THEN Return(FunctionCallToString(fc.value)) ELSE fc
    ELSE Return(configArrayToText(expr))

\* fields.find((f) => f.name === fieldName): its index, or 0
findField(fields, fieldName) ==
    LET found == {i \in 1..Len(fields) : fields[i].name = fieldName}
    IN  IF found = {} THEN 0 ELSE Min(found)

\* previewFeatures.includes(f) || previewFeatures.push(f)
pushIfAbsent(features, f) ==
    IF f \in Range(features) THEN features ELSE Append(features, f)

\* the write-back of the previewFeatures array into the generator's fields
writePreviewFeatures(fields, previewFeatures) ==
    IF Len(previewFeatures) > 0
    THEN LET curr == findField(fields, "previewFeatures")
             text == JSON_stringify(JsArray(previewFeatures))
         IN  IF curr = 0 THEN Append(fields, SimpleField("previewFeatures", text))
             ELSE [fields EXCEPT ![curr].text = text]
    ELSE fields

\* a mutation of configurePreviewFeatures: the features are pushed without
\* looking whether the array includes them
configurePreviewFeatures_NoIncludes(fields, version) ==
    LET provider == findField(fields, "provider")
        curr == findField(fields, "previewFeatures")
    IN  IF provider = 0 \/ version = Undefined THEN Return(fields)
        ELSE IF fields[provider].text # JSON_stringify(JsString("prisma-client-js"))
        THEN Return(fields)
        ELSE LET parsed == JSON_parse(IF curr = 0 THEN "[]" ELSE fields[curr].text)
             IN  IF ~parsed.ok THEN parsed
                 ELSE IF parsed.value.t # "array"
                 THEN Throw(PluginError(name, "option \"previewFeatures\" must be an array"))
                 ELSE Return(writePreviewFeatures(fields,
                        IF semver_lt(version, Version(5, 0, 0))
                        THEN parsed.value.v \o <<"extendedWhereUnique", "fieldReference">>
                        ELSE parsed.value.v))

\* a mutation of configurePreviewFeatures: the features are put in front
configurePreviewFeatures_Unshift(fields, version) ==
    LET provider == findField(fields, "provider")
        curr == findField(fields, "previewFeatures")
    IN  IF provider = 0 \/ version = Undefined THEN Return(fields)
        ELSE IF fields[provider].text # JSON_stringify(JsString("prisma-client-js"))
        THEN Return(fields)
        ELSE LET parsed == JSON_parse(IF curr = 0 THEN "[]" ELSE fields[curr].text)
             IN  IF ~parsed.ok THEN parsed
                 ELSE IF parsed.value.t # "array"
                 THEN Throw(PluginError(name, "option \"previewFeatures\" must be an array"))
                 ELSE Return(writePreviewFeatures(fields,
                        IF semver_lt(version, Version(5, 0, 0))
                        THEN (IF "fieldReference" \in Range(parsed.value.v) THEN <<>>
                              ELSE <<"fieldReference">>)
                             \o (IF "extendedWhereUnique" \in Range(parsed.value.v) THEN <<>>
                                 ELSE <<"extendedWhereUnique">>)
                             \o parsed.value.v
                        ELSE parsed.value.v))

\* a mutation of configurePreviewFeatures: a previewFeatures value that is no
\* array is left alone
configurePreviewFeatures_AnyShape(fields, version) ==
    LET provider == findField(fields, "provider")
        curr == findField(fields, "previewFeatures")
    IN  IF provider = 0 \/ version = Undefined THEN Return(fields)
        ELSE IF fields[provider].text # JSON_stringify(JsString("prisma-client-js"))
        THEN Return(fields)
        ELSE LET parsed == JSON_parse(IF curr = 0 THEN "[]" ELSE fields[curr].text)
             IN  IF ~parsed.ok THEN parsed
                 ELSE IF parsed.value.t # "array"
                 THEN Return(fields)
                 ELSE Return(writePreviewFeatures(fields,
                        IF semver_lt(version, Version(5, 0, 0))
                        THEN pushIfAbsent(pushIfAbsent(parsed.value.v, "extendedWhereUnique"),
                                          "fieldReference")
                        ELSE parsed.value.v))

\* a mutation of configurePreviewFeatures: the provider's text is not looked at
configurePreviewFeatures_AnyProvider(fields, version) ==
    LET provider == findField(fields, "provider")
        curr == findField(fields, "previewFeatures")
    IN  IF provider = 0 \/ version = Undefined THEN Return(fields)
        ELSE LET parsed == JSON_parse(IF curr = 0 THEN "[]" ELSE fields[curr].text)
             IN  IF ~parsed.ok THEN parsed
                 ELSE IF parsed.value.t # "array"
                 THEN Throw(PluginError(name, "option \"previewFeatures\" must be an array"))
                 ELSE Return(writePreviewFeatures(fields,
                        IF semver_lt(version, Version(5, 0, 0))
                        THEN pushIfAbsent(pushIfAbsent(parsed.value.v, "extendedWhereUnique"),
                                          "fieldReference")
                        ELSE parsed.value.v))

\* "deal with configuring PrismaClient preview features": the generator's
\* fields after the step, or what it throws
configurePreviewFeatures(fields, version) ==
    LET provider == findField(fields, "provider")
        curr == findField(fields, "previewFeatures")
    IN  IF provider = 0 \/ version = Undefined THEN Return(fields)
        ELSE IF fields[provider].text # JSON_stringify(JsString("prisma-client-js"))
        THEN Return(fields)
        ELSE LET parsed == JSON_parse(IF curr = 0 THEN "[]" ELSE fields[curr].text)
             IN  IF ~parsed.ok THEN parsed
                 ELSE IF parsed.value.t # "array"
                 THEN Throw(PluginError(name, "option \"previewFeatures\" must be an array"))
                 ELSE Return(writePreviewFeatures(fields,
                        IF semver_lt(version, Version(5, 0, 0))
                        THEN pushIfAbsent(pushIfAbsent(parsed.value.v, "extendedWhereUnique"),
                                          "fieldReference")
                        ELSE parsed.value.v))

\* the PrismaModel after the call, and the call's completion; the generator
\* is added with its translated fields before the preview features are dealt with
generateGenerator(p, decl, version) ==
    LET fields == MapCompletion([i \in 1..Len(decl.fields) |->
                      LET text == configExprToText(decl.fields[i].value)
                      IN  IF text.ok THEN Return(SimpleField(decl.fields[i].name, text.value))
                          ELSE text])
    IN  IF ~fields.ok THEN [prisma |-> p, completion |-> fields]
        ELSE LET configured == configurePreviewFeatures(fields.value, version)
                 generator(f) == [name |-> decl.name, fields |-> f]
             IN  IF configured.ok
                 THEN [prisma |-> [p EXCEPT !.generators = Append(@, generator(configured.value))],
                       completion |-> Return(Undefined)]
                 ELSE [prisma |-> [p EXCEPT !.generators = Append(@, generator(fields.value))],
                       completion |-> configured]

----------------------------------------------------------------------------
(* The driver: generate                                                    *)

Model(declarations) == [type |-> "Model", declarations |-> declarations]
DataSource(n, fields) == [type |-> "DataSource", name |-> n, fields |-> fields]
\* a declaration of a kind generate's switch has no case for
Plugin(n) == [type |-> "Plugin", name |-> n]

\* PluginOptions: the options generate reads
PluginOptions(output, format, generateClient, generateArgs) ==
    [output |-> output, format |-> format, generateClient |-> generateClient,
     generateArgs |-> generateArgs]

PRELUDE == "// DO NOT MODIFY THIS FILE //"
PRISMA_MINIMUM_VERSION == Version(4, 8, 0)

\* the text of a version, as getPrismaVersion returns it
VersionText(v) == ToString(v.major) \o "." \o ToString(v.minor) \o "." \o ToString(v.patch)

\* a mutation of versionWarnings: the warning is pushed for every detected version
versionWarnings_AnyVersion(version) ==
    IF version # Undefined
    THEN << "ZenStack requires Prisma version \"" \o VersionText(PRISMA_MINIMUM_VERSION)
                \o "\" or higher. Detected version is \"" \o VersionText(version) \o "\"." >>
    ELSE <<>>

\* the warnings generate starts with
versionWarnings(version) ==
    IF version # Undefined /\ semver_lt(version, PRISMA_MINIMUM_VERSION)
    THEN << "ZenStack requires Prisma version \"" \o VersionText(PRISMA_MINIMUM_VERSION)
                \o "\" or higher. Detected version is \"" \o VersionText(version) \o "\"." >>
    ELSE <<>>

\* the PrismaModel after the call, and the call's completion
generateDataSource(p, dataSource) ==
    The({ IF ~fields.ok THEN [prisma |-> p, completion |-> fields]
          ELSE [prisma |-> [p EXCEPT !.datasources =
                               Append(@, [name |-> dataSource.name, fields |-> fields.value])],
                completion |-> Return(Undefined)] :
             fields \in {MapCompletion([k \in 1..Len(dataSource.fields) |->
                            The({ IF text.ok
                                  THEN Return(SimpleField(dataSource.fields[k].name, text.value))
                                  ELSE text :
                                     text \in {configExprToText(dataSource.fields[k].value)} })])} })

\* the kinds of declaration generate's switch has a case for
DeclarationKinds == {"DataSource", "Enum", "DataModel", "GeneratorDecl"}

\* the body of generate's loop: the switch on decl.$type
generateDeclaration(p, decl, version) ==
    CASE decl.type = "DataSource" -> generateDataSource(p, decl)
      [] decl.type = "Enum" -> generateEnum(p, decl)
      [] decl.type = "DataModel" -> generateModel(p, decl)
      [] decl.type = "GeneratorDecl" -> generateGenerator(p, decl, version)
      [] OTHER -> [prisma |-> p, completion |-> Return(Undefined)]

\* options.output ? resolvePath(options.output, options) : getDefaultPrismaOutputFile(..)
outFile(opts) ==
    IF Truthy(opts.output) THEN opts.output.v ELSE "./prisma/schema.prisma"

\* this.PRELUDE + prisma.toString(): the text written to the output file
schemaText(p) == [prelude |-> PRELUDE, schema |-> p, formatted |-> FALSE]
\* what 'prisma format' makes of the file
formattedText(text) == [text EXCEPT !.formatted = TRUE]

formatCmd(opts) == "npx prisma format --schema " \o outFile(opts)
generateCmd(opts) ==
    "npx prisma generate --schema \"" \o outFile(opts) \o "\""
        \o (IF opts.generateArgs # Undefined /\ opts.generateArgs.t = "string"
            THEN " " \o opts.generateArgs.v ELSE "")

\* a call generate makes (at = "call") and, for a call it awaits, how the call
\* ended (at = "resolved" or "rejected")
Event(op, arg, stdio, at) == [op |-> op, arg |-> arg, stdio |-> stdio, at |-> at]

\* the rest of generate from 'const generateClient = ...' to the next await or
\* to the return: the next position, the events and the completion
clientStep(opts, evs, warns) ==
    IF opts.generateClient # JsBoolean("false")
    THEN [pc |-> "generate",
          events |-> Append(evs, Event("execSync", generateCmd(opts), "ignore", "call")),
          result |-> Undefined]
    ELSE [pc |-> "done", events |-> evs, result |-> Return(warns)]

\* a mutation of formatStep: 'prisma format' is run for every truthy option value
formatStep_Truthy(opts, evs, warns) ==
    IF Truthy(opts.format)
    THEN [pc |-> "format",
          events |-> Append(evs, Event("execSync", formatCmd(opts), "", "call")),
          result |-> Undefined]
    ELSE clientStep(opts, evs, warns)

\* the rest of generate from 'if (options.format === true)' to the next await
\* or to the return
formatStep(opts, evs, warns) ==
    IF opts.format = JsBoolean("true")
    THEN [pc |-> "format",
          events |-> Append(evs, Event("execSync", formatCmd(opts), "", "call")),
          result |-> Undefined]
    ELSE clientStep(opts, evs, warns)

----------------------------------------------------------------------------
(* Bounded inputs: expressions                                             *)

FunctionNames == {"auth", "now"}

Leaves ==
    { StringLiteral("a"), NumberLiteral("1"), BooleanLiteral("true"), NullExpr, ThisExpr,
      ReferenceExpr("f", <<>>) }

ArgumentsOver(S) ==
    {[i \in 1..Len(s) |-> Argument(s[i])] : s \in SeqsUpTo(S, MaxItems)}

CompositesOver(S) ==
    {ArrayExpr(s) : s \in SeqsUpTo(S, MaxItems)}
    \cup {InvocationExpr(f, a) : f \in FunctionNames, a \in ArgumentsOver(S)}
    \cup {MemberAccessExpr(e, "id") : e \in S}

\* composites that occur as children of the second level
Nested ==
    { StringLiteral("a"), ThisExpr,
      ArrayExpr(<<StringLiteral("a")>>), ArrayExpr(<<ThisExpr>>),
      InvocationExpr("auth", <<>>), InvocationExpr("now", <<Argument(NumberLiteral("1"))>>),
      MemberAccessExpr(InvocationExpr("auth", <<>>), "id"),
      ReferenceExpr("f", <<NamedArgument("sort", "Desc")>>) }

RECURSIVE Chain(_, _)
\* e wrapped k times in a one-item array
Chain(e, k) == IF k = 0 THEN e ELSE ArrayExpr(<<Chain(e, k - 1)>>)

DeepExprs ==
    {Chain(e, k) : e \in {StringLiteral("a"), ThisExpr, NullExpr}, k \in 1..MaxDepth}

ExprPool == Leaves \cup CompositesOver(Leaves) \cup CompositesOver(Nested) \cup DeepExprs

----------------------------------------------------------------------------
(* Bounded inputs: attributes                                              *)

PrismaMarker == InternalAttribute(Reference("@@@prisma", [name |-> "@@@prisma"]))
OtherMarker ==
    InternalAttribute(Reference("@@@supportTypeDef", [name |-> "@@@supportTypeDef"]))
UnresolvedMarker == InternalAttribute(Reference("@@@prisma", Undefined))

AttributeNames ==
    {"@id", "@password", "@@map", MODEL_PASSTHROUGH_ATTR, FIELD_PASSTHROUGH_ATTR}

AttributeDeclPool ==
    {AttributeDecl(n, markers) :
        n \in AttributeNames,
        markers \in SeqsUpTo({PrismaMarker, OtherMarker, UnresolvedMarker}, MaxAttrs)}

\* attributes with a resolved declaration, and attributes whose declaration
\* the linker did not find
AttributePool ==
    {DataModelFieldAttribute(Reference(d.name, d), <<>>) : d \in AttributeDeclPool}
    \cup {DataModelFieldAttribute(Reference(n, Undefined), <<>>) : n \in AttributeNames}

\* the declarations of the ZModel standard library the documents use
IdDecl == AttributeDecl("@id", <<PrismaMarker>>)
DefaultDecl == AttributeDecl("@default", <<PrismaMarker>>)
FieldPassthroughDecl == AttributeDecl(FIELD_PASSTHROUGH_ATTR, <<>>)
PasswordDecl == AttributeDecl("@password", <<>>)
MapDecl == AttributeDecl("@@map", <<OtherMarker, PrismaMarker>>)
ModelPassthroughDecl == AttributeDecl(MODEL_PASSTHROUGH_ATTR, <<>>)
AllowDecl == AttributeDecl("@@allow", <<>>)

FieldAttr(d, values) ==
    DataModelFieldAttribute(Reference(d.name, d), [i \in 1..Len(values) |-> Argument(values[i])])
ModelAttr(d, values) ==
    DataModelAttribute(Reference(d.name, d), [i \in 1..Len(values) |-> Argument(values[i])])

Auth == InvocationExpr("auth", <<>>)

\* what stands as the argument of a pass-through attribute: a text, the empty
\* text, a number, an expression that is no literal, or nothing
PassthroughArgs(text) ==
    { <<StringLiteral(text)>>, <<StringLiteral("")>>, <<NumberLiteral("1")>>,
      <<ReferenceExpr("f", <<>>)>>, <<>> }

DefaultValues ==
    { StringLiteral("a"), Auth, MemberAccessExpr(Auth, "id"),
      InvocationExpr("now", <<Argument(MemberAccessExpr(Auth, "id"))>>),
      InvocationExpr("now", <<>>), ThisExpr }

FieldAttributePool ==
    { FieldAttr(IdDecl, <<>>), FieldAttr(PasswordDecl, <<>>),
      DataModelFieldAttribute(Reference("@foo", Undefined), <<>>) }
    \cup {FieldAttr(DefaultDecl, <<v>>) : v \in DefaultValues}
    \cup {FieldAttr(FieldPassthroughDecl, a) : a \in PassthroughArgs("@unique(sort: Desc)")}

EnumFieldAttributePool ==
    { FieldAttr(IdDecl, <<>>), FieldAttr(PasswordDecl, <<>>),
      DataModelFieldAttribute(Reference("@foo", Undefined), <<>>) }
    \cup {FieldAttr(FieldPassthroughDecl, a) : a \in PassthroughArgs("@map(\"x\")")}

ContainerAttributePool ==
    { ModelAttr(MapDecl, <<StringLiteral("users")>>), ModelAttr(MapDecl, <<ThisExpr>>),
      ModelAttr(AllowDecl, <<StringLiteral("all"), BooleanLiteral("true")>>),
      DataModelAttribute(Reference("@@foo", Undefined), <<>>) }
    \cup {ModelAttr(ModelPassthroughDecl, a) : a \in PassthroughArgs("@@index([a])")}

\* a validated document has at most one @default on a field
AtMostOneDefault(attributes) ==
    Cardinality({i \in 1..Len(attributes) : attributes[i].decl.refText = "@default"}) <= 1

FieldAttributeLists ==
    {l \in SeqsUpTo(FieldAttributePool, MaxAttrs) : AtMostOneDefault(l)}

----------------------------------------------------------------------------
(* Bounded inputs: models and enums                                        *)

ScalarType(n) == DataModelFieldType(n, Undefined, Undefined, FALSE, FALSE)
PlainField(n) == DataModelField(n, ScalarType("String"), <<>>, <<>>)

\* what a field's type can be: a scalar, a reference to a model or an enum
\* (resolved or not), an Unsupported("...") escape (usable or not), or nothing
TypeShapes ==
    { <<"String", Undefined, Undefined>>,
      <<"", Reference("Post", [name |-> "Post"]), Undefined>>,
      <<"", Reference("Post", Undefined), Undefined>>,
      <<"", Undefined, [value |-> StringLiteral("xml")]>>,
      <<"", Undefined, [value |-> StringLiteral("")]>>,
      <<"", Undefined, [value |-> NumberLiteral("1")]>>,
      <<"", Undefined, Undefined>> }

FieldTypePool ==
    {DataModelFieldType(s[1], s[2], s[3], array, optional) :
        s \in TypeShapes, array \in BOOLEAN, optional \in BOOLEAN}

DataModelPool ==
    \* one field with any attributes
    {DataModel("M", FALSE, <<DataModelField("f", ScalarType("String"), l, <<>>)>>, <<>>, <<>>) :
        l \in FieldAttributeLists}
    \* two fields, each with at most one attribute
    \cup {DataModel("M", FALSE,
              <<DataModelField("f", ScalarType("String"), l1, <<>>),
                DataModelField("g", ScalarType("Int"), l2, <<"/// g">>)>>, <<>>, <<>>) :
            l1 \in SeqsUpTo(FieldAttributePool, 1), l2 \in SeqsUpTo(FieldAttributePool, 1)}
    \* any container attributes, with and without an author's comment
    \cup {DataModel("M", v, <<PlainField("f")>>, l, c) :
            v \in BOOLEAN, l \in SeqsUpTo(ContainerAttributePool, MaxAttrs),
            c \in {<<>>, <<"/// M">>}}
    \* a field of any type, before and after a plain field
    \cup {DataModel("M", FALSE, <<PlainField("f"), DataModelField("g", t, l, <<>>)>>, <<>>, <<>>) :
            t \in FieldTypePool,
            l \in {<<>>, <<FieldAttr(IdDecl, <<>>)>>, <<FieldAttr(DefaultDecl, <<Auth>>)>>}}
    \cup {DataModel("M", FALSE, <<DataModelField("g", t, <<>>, <<>>), PlainField("f")>>, <<>>, <<>>) :
            t \in FieldTypePool}

EnumPool ==
    {Enum("E", <<EnumField("A", l), EnumField("B", <<>>)>>, <<>>, <<>>) :
        l \in SeqsUpTo(EnumFieldAttributePool, MaxAttrs)}
    \cup {Enum("E", <<EnumField("A", <<>>)>>, l, c) :
            l \in SeqsUpTo(ContainerAttributePool, MaxAttrs), c \in {<<>>, <<"/// E">>}}

----------------------------------------------------------------------------
(* Bounded inputs: generator blocks and Prisma versions                    *)

VersionPool ==
    { Undefined, Version(3, 15, 2), Version(4, 8, 0), Version(4, 16, 2), Version(5, 0, 0),
      Version(5, 4, 1) }

ProviderFields ==
    { <<>>, <<ConfigField("provider", StringLiteral("prisma-client-js"))>>,
      <<ConfigField("provider", StringLiteral("prisma-client-py"))>> }

PreviewFeaturesValues ==
    {ConfigArrayExpr([i \in 1..Len(l) |-> StringLiteral(l[i])]) :
        l \in SeqsUpTo(FeatureNames, MaxFeatures)}
    \cup { StringLiteral("fieldReference"),
           ConfigArrayExpr(<<ConfigInvocationExpr("fieldReference", <<>>)>>),
           InvocationExpr("env", <<Argument(StringLiteral("FEATURES"))>>),
           InvocationExpr("env", <<Argument(ArrayExpr(<<>>))>>) }

GeneratorPool ==
    {GeneratorDecl("client",
         p \o f \o <<ConfigField("output", StringLiteral("./client"))>>) :
        p \in ProviderFields,
        f \in {<<>>} \cup {<<ConfigField("previewFeatures", v)>> : v \in PreviewFeaturesValues}}

NoPrisma == [datasources |-> <<>>, generators |-> <<>>, enums |-> <<>>, models |-> <<>>]

\* no run of generate: the operation under check is called directly
NoRun ==
    /\ options = Undefined
    /\ cursor = 0
    /\ warnings = <<>>
    /\ disk = Undefined
    /\ events = <<>>
    /\ dmmf = Undefined

----------------------------------------------------------------------------
(* SpecExpr: the expression translator applied to one expression           *)

InitExpr ==
    /\ pc = "start"
    /\ node \in ExprPool
    /\ prismaVersion = Undefined
    /\ prisma = NoPrisma
    /\ result = Undefined
    /\ NoRun

MakeAttributeArgValue ==
    /\ pc = "start"
    /\ result' = makeAttributeArgValue(node)
    /\ pc' = "makeAttributeArgValue"
    /\ UNCHANGED <<node, prismaVersion, prisma>>
    /\ UNCHANGED run

MakeFunctionCall ==
    /\ pc = "start"
    /\ isInvocationExpr(node)
    /\ result' = makeFunctionCall(node)
    /\ pc' = "makeFunctionCall"
    /\ UNCHANGED <<node, prismaVersion, prisma>>
    /\ UNCHANGED run

NextExpr == MakeAttributeArgValue \/ MakeFunctionCall

SpecExpr == InitExpr /\ [][NextExpr]_vars

LiteralTypes == {"StringLiteral", "NumberLiteral", "BooleanLiteral"}

\* the text the claim gives for one argument of a function call
RenderedArg(e) ==
    IF e.type = "StringLiteral" THEN "\"" \o e.value \o "\""
    ELSE IF e.type = "NullExpr" THEN "null"
    ELSE e.value

\* C8: makeFunctionCall succeeds exactly when every argument is a string,
\* number or boolean literal or null, and fails with an error otherwise; on
\* success a string literal is rendered in double quotes, another literal as
\* its value's string form and null as the token null, in argument order.
C8_FunctionCallArguments ==
    pc = "makeFunctionCall" =>
        LET allowed == \A i \in 1..Len(node.args) :
                node.args[i].value.type \in LiteralTypes \cup {"NullExpr"}
        IN  /\ result.ok <=> allowed
            /\ ~result.ok => result.error.type = "PluginError"
            /\ result.ok =>
                /\ result.value.func = node.function
                /\ Len(result.value.args) = Len(node.args)
                /\ \A i \in 1..Len(node.args) :
                    result.value.args[i].value = RenderedArg(node.args[i].value)

\* a call whose arguments are a string literal and null, in that order, rendered
C8_Witness ==
    /\ pc = "makeFunctionCall"
    /\ Len(node.args) = 2
    /\ node.args[1].value = StringLiteral("a")
    /\ node.args[2].value = NullExpr
    /\ result.ok
    /\ result.value.args[1].value = "\"a\""
    /\ result.value.args[2].value = "null"

SupportedTypes == LiteralTypes \cup {"ArrayExpr", "ReferenceExpr", "InvocationExpr"}

RECURSIVE OtherKinds(_)
\* the types of the expressions of another kind in e, looking through arrays
OtherKinds(e) ==
    IF e.type = "ArrayExpr" THEN UNION {OtherKinds(e.items[i]) : i \in 1..Len(e.items)}
    ELSE IF e.type \in SupportedTypes THEN {}
    ELSE {e.type}

RECURSIVE HasRejectedCall(_)
\* e holds, looking through arrays, a call that makeFunctionCall rejects
HasRejectedCall(e) ==
    IF e.type = "ArrayExpr" THEN \E i \in 1..Len(e.items) : HasRejectedCall(e.items[i])
    ELSE /\ e.type = "InvocationExpr"
         /\ \E i \in 1..Len(e.args) :
                e.args[i].value.type \notin LiteralTypes \cup {"NullExpr"}

\* C9: makeAttributeArgValue maps a literal to the String/Number/Boolean value
\* of its kind, an array to an Array of the translated items in order, a
\* reference to a FieldReference and an invocation to a FunctionCall; an
\* expression of any other kind, at any depth inside arrays, makes it fail
\* with an error naming that expression's type, and it returns no value.
C9_ArgValueTranslation ==
    pc = "makeAttributeArgValue" =>
        /\ node.type = "StringLiteral" =>
                result = Return([type |-> "String", value |-> node.value])
        /\ node.type = "NumberLiteral" =>
                result = Return([type |-> "Number", value |-> node.value])
        /\ node.type = "BooleanLiteral" =>
                result = Return([type |-> "Boolean", value |-> node.value])
        /\ (node.type = "ArrayExpr" /\ result.ok) =>
                /\ result.value.type = "Array"
                /\ Len(result.value.value) = Len(node.items)
                /\ \A i \in 1..Len(node.items) :
                    Return(result.value.value[i]) = makeAttributeArgValue(node.items[i])
        /\ node.type = "ReferenceExpr" =>
                /\ result.ok
                /\ result.value.type = "FieldReference"
                /\ result.value.value.field = node.target
        /\ (node.type = "InvocationExpr" /\ result.ok) =>
                result.value.type = "FunctionCall"
        /\ result.ok <=> (OtherKinds(node) = {} /\ ~HasRejectedCall(node))
        /\ (~result.ok /\ ~HasRejectedCall(node)) =>
                \E type \in OtherKinds(node) :
                    result.error = PluginError(name,
                        "Unsupported attribute argument expression type: " \o type)

\* an expression of another kind two arrays deep: the translation fails
C9_Witness ==
    /\ pc = "makeAttributeArgValue"
    /\ node = ArrayExpr(<<ArrayExpr(<<ThisExpr>>)>>)
    /\ ~result.ok
    /\ result.error.message = "Unsupported attribute argument expression type: ThisExpr"

----------------------------------------------------------------------------
(* SpecAttr: the classifier applied to one attribute                       *)

InitAttr ==
    /\ pc = "start"
    /\ node \in AttributePool
    /\ prismaVersion = Undefined
    /\ prisma = NoPrisma
    /\ result = Undefined
    /\ NoRun

IsPrismaAttribute ==
    /\ pc = "start"
    /\ result' = Return(isPrismaAttribute(node))
    /\ pc' = "isPrismaAttribute"
    /\ UNCHANGED <<node, prismaVersion, prisma>>
    /\ UNCHANGED run

NextAttr == IsPrismaAttribute

SpecAttr == InitAttr /\ [][NextAttr]_vars

----------------------------------------------------------------------------
(* SpecDecl: one model or enum declaration compiled into an empty document *)

InitDecl ==
    /\ pc = "start"
    /\ node \in DataModelPool \cup EnumPool
    /\ prismaVersion = Undefined
    /\ prisma = NoPrisma
    /\ result = Undefined
    /\ NoRun

GenerateModel ==
    /\ pc = "start"
    /\ node.type = "DataModel"
    /\ \E done \in {generateModel(prisma, node)} :
            /\ prisma' = done.prisma
            /\ result' = done.completion
    /\ pc' = "generateModel"
    /\ UNCHANGED <<node, prismaVersion>>
    /\ UNCHANGED run

GenerateEnum ==
    /\ pc = "start"
    /\ node.type = "Enum"
    /\ \E done \in {generateEnum(prisma, node)} :
            /\ prisma' = done.prisma
            /\ result' = done.completion
    /\ pc' = "generateEnum"
    /\ UNCHANGED <<node, prismaVersion>>
    /\ UNCHANGED run

NextDecl == GenerateModel \/ GenerateEnum

SpecDecl == InitDecl /\ [][NextDecl]_vars

----------------------------------------------------------------------------
(* Claims on the classifier and on the attributes of models and enums      *)

\* C10: isPrismaAttribute returns false when the attribute's declaration is
\* unresolved; otherwise it returns true exactly when the declaration carries
\* the @@@prisma marker attribute or is named @@prisma.passthrough or
\* @prisma.passthrough.
C10_Classifier ==
    pc = "isPrismaAttribute" =>
        LET markers == {node.decl.ref.attributes[i].decl : i \in 1..Len(node.decl.ref.attributes)}
        IN  /\ node.decl.ref = Undefined => result.value = FALSE
            /\ node.decl.ref # Undefined =>
                result.value =
                    \/ \E m \in markers : m.ref # Undefined /\ m.ref.name = "@@@prisma"
                    \/ node.decl.ref.name \in {"@@prisma.passthrough", "@prisma.passthrough"}

\* a pass-through attribute without the marker is accepted by the classifier
C10_Witness ==
    /\ pc = "isPrismaAttribute"
    /\ node.decl.ref # Undefined
    /\ node.decl.ref.name = "@prisma.passthrough"
    /\ node.decl.ref.attributes = <<OtherMarker>>
    /\ result.value = TRUE

Compiled == pc \in {"generateModel", "generateEnum"}
\* the declaration the run put into the document
Emitted == IF node.type = "DataModel" THEN prisma.models[1] ELSE prisma.enums[1]

RECURSIVE ContainsAuth(_)
\* an auth() invocation occurs in e or anywhere below it
ContainsAuth(e) ==
    \/ e.type = "InvocationExpr" /\ e.function = "auth"
    \/ e.type = "InvocationExpr" /\ \E i \in 1..Len(e.args) : ContainsAuth(e.args[i].value)
    \/ e.type = "ArrayExpr" /\ \E i \in 1..Len(e.items) : ContainsAuth(e.items[i])
    \/ e.type = "MemberAccessExpr" /\ ContainsAuth(e.operand)

\* the field is a model field whose @default argument contains auth()
DefaultContainsAuth(field) ==
    /\ node.type = "DataModel"
    /\ \E i \in 1..Len(field.attributes) :
        /\ field.attributes[i].decl.refText = "@default"
        /\ field.attributes[i].args # <<>>
        /\ ContainsAuth(field.attributes[i].args[1].value)

IsPassthrough(attr, attrName) == attr.decl.ref # Undefined /\ attr.decl.ref.name = attrName
\* the pass-through attribute has an argument that gives no text to emit
NoLiteralText(attr) == attr.args # <<>> /\ ~Truthy(getLiteral(attr.args[1].value))

\* the name under which a source attribute would show in the target
SourceKeys(attributes) ==
    [i \in 1..Len(attributes) |->
        IF attributes[i].decl.ref.name \in {MODEL_PASSTHROUGH_ATTR, FIELD_PASSTHROUGH_ATTR}
        THEN "PassThroughAttribute" ELSE attributes[i].decl.ref.name]
TargetKeys(attributes) ==
    [i \in 1..Len(attributes) |->
        IF attributes[i].kind = "PassThroughAttribute" THEN "PassThroughAttribute"
        ELSE attributes[i].name]

\* C1 as stated: on every model, enum, model field and enum field the
\* attributes emitted are exactly those the classifier accepts.
C1_EmittedIffClassified ==
    (Compiled /\ result.ok) =>
        /\ \A i \in 1..Len(node.fields) :
            TargetKeys(Emitted.fields[i].attributes)
                = SourceKeys(SelectSeq(node.fields[i].attributes, isPrismaAttribute))
        /\ TargetKeys(Emitted.attributes)
                = SourceKeys(SelectSeq(node.attributes, isPrismaAttribute))

\* C1, amended: in a declaration compiled without error the attributes
\* emitted are those the classifier accepts, in order, except that a model
\* field whose @default contains auth() emits none and that a container
\* pass-through attribute whose argument gives no text is dropped.
C1_EmittedIffClassifiedAmended ==
    (Compiled /\ result.ok) =>
        /\ Len(Emitted.fields) = Len(node.fields)
        /\ \A i \in 1..Len(node.fields) :
            TargetKeys(Emitted.fields[i].attributes)
                = IF DefaultContainsAuth(node.fields[i]) THEN <<>>
                  ELSE SourceKeys(SelectSeq(node.fields[i].attributes, isPrismaAttribute))
        /\ TargetKeys(Emitted.attributes)
                = SourceKeys(SelectSeq(node.attributes,
                      LAMBDA a : /\ isPrismaAttribute(a)
                                 /\ ~(IsPassthrough(a, MODEL_PASSTHROUGH_ATTR)
                                        /\ NoLiteralText(a))))

\* a field with an accepted and a rejected attribute: the accepted one alone is emitted
C1_Witness ==
    /\ pc = "generateModel"
    /\ result.ok
    /\ node.fields[1].attributes = <<FieldAttr(PasswordDecl, <<>>), FieldAttr(IdDecl, <<>>)>>
    /\ TargetKeys(Emitted.fields[1].attributes) = <<"@id">>

\* C2: a model field whose @default argument contains an auth() invocation
\* anywhere inside it is emitted with no target attribute, whatever other
\* attributes the field carries.
C2_AuthDefaultEmitsNoAttributes ==
    pc = "generateModel" =>
        \A i \in 1..Len(Emitted.fields) :
            DefaultContainsAuth(node.fields[i]) => Emitted.fields[i].attributes = <<>>

\* @id next to a @default whose auth() sits inside a call's argument: nothing emitted
C2_Witness ==
    /\ pc = "generateModel"
    /\ result.ok
    /\ node.fields[1].attributes =
            << FieldAttr(IdDecl, <<>>),
               FieldAttr(DefaultDecl,
                   <<InvocationExpr("now", <<Argument(MemberAccessExpr(Auth, "id"))>>)>>) >>
    /\ Len(Emitted.fields) = 1
    /\ Emitted.fields[1].attributes = <<>>

\* C5: a container-level pass-through attribute with a missing argument or an
\* argument that is no string literal makes the compilation fail with an error.
C5_ContainerPassthroughFails ==
    (Compiled /\ \E i \in 1..Len(node.attributes) :
                    /\ IsPassthrough(node.attributes[i], MODEL_PASSTHROUGH_ATTR)
                    /\ \/ node.attributes[i].args = <<>>
                       \/ node.attributes[i].args[1].value.type # "StringLiteral")
        => ~result.ok

\* the fields with a field-level pass-through attribute that is translated
\* (no auth() in a @default of a model field) and whose argument is missing (TRUE)
\* or gives no text (FALSE)
BadFieldPassthrough(field, missing) ==
    /\ ~DefaultContainsAuth(field)
    /\ \E j \in 1..Len(field.attributes) :
        /\ IsPassthrough(field.attributes[j], FIELD_PASSTHROUGH_ATTR)
        /\ IF missing THEN field.attributes[j].args = <<>>
           ELSE NoLiteralText(field.attributes[j])

\* C6 as stated: a field-level pass-through attribute with a missing argument
\* or one that is no string literal does not make the compilation fail, and
\* the field is emitted without it.
C6_FieldPassthroughSilent ==
    Compiled =>
        \A i \in 1..Len(node.fields) :
            (\E j \in 1..Len(node.fields[i].attributes) :
                /\ IsPassthrough(node.fields[i].attributes[j], FIELD_PASSTHROUGH_ATTR)
                /\ \/ node.fields[i].attributes[j].args = <<>>
                   \/ node.fields[i].attributes[j].args[1].value.type # "StringLiteral")
            => (result.ok /\ Len(Emitted.fields) >= i)

\* C6, amended: a field-level pass-through attribute with a missing argument,
\* or with one that gives no text (no literal, or the empty string), makes
\* the compilation fail and the field is not emitted, unless it sits on a
\* model field whose @default contains auth(); when it is the first attribute
\* of the first field the failure is the PluginError "Invalid arguments for
\* @prisma.passthrough attribute", or a TypeError when the argument is missing.
C6_FieldPassthroughFails ==
    Compiled =>
        /\ \A i \in 1..Len(node.fields) :
            (BadFieldPassthrough(node.fields[i], TRUE) \/ BadFieldPassthrough(node.fields[i], FALSE))
                => (~result.ok /\ Len(Emitted.fields) < i)
        /\ (node.fields[1].attributes # <<>>
                /\ IsPassthrough(node.fields[1].attributes[1], FIELD_PASSTHROUGH_ATTR)
                /\ ~DefaultContainsAuth(node.fields[1])) =>
            /\ NoLiteralText(node.fields[1].attributes[1]) =>
                    result = Throw(PluginError(name,
                        "Invalid arguments for @prisma.passthrough attribute"))
            /\ node.fields[1].attributes[1].args = <<>> =>
                    (~result.ok /\ result.error.type = "TypeError")

\* a field-level pass-through attribute whose argument is a reference: PluginError
C6_Witness ==
    /\ pc = "generateModel"
    /\ node.fields[1].attributes =
            <<FieldAttr(IdDecl, <<>>), FieldAttr(FieldPassthroughDecl, <<ReferenceExpr("f", <<>>)>>)>>
    /\ result = Throw(PluginError(name, "Invalid arguments for @prisma.passthrough attribute"))
    /\ Emitted.fields = <<>>

\* the texts of the pass-through attributes with a non-empty string literal
SourceTexts(attributes, attrName) ==
    LET literal == SelectSeq(attributes,
            LAMBDA a : /\ IsPassthrough(a, attrName)
                       /\ Len(a.args) = 1
                       /\ a.args[1].value.type = "StringLiteral"
                       /\ a.args[1].value.value # "")
    IN  [i \in 1..Len(literal) |-> literal[i].args[1].value.value]
\* the emitted pass-through attributes that hold a string
TargetTexts(attributes) ==
    SelectSeq(attributes, LAMBDA a : a.kind = "PassThroughAttribute" /\ a.text.t = "string")

\* C7 as stated: every pass-through attribute whose sole argument is a
\* non-empty string literal s is emitted as a pass-through attribute of text s.
C7_PassthroughVerbatim ==
    (Compiled /\ result.ok) =>
        /\ \A i \in 1..Len(node.fields) :
            TargetTexts(Emitted.fields[i].attributes)
                = [k \in 1..Len(SourceTexts(node.fields[i].attributes, FIELD_PASSTHROUGH_ATTR)) |->
                    PrismaPassThroughAttribute(
                        JsString(SourceTexts(node.fields[i].attributes, FIELD_PASSTHROUGH_ATTR)[k]))]
        /\ TargetTexts(Emitted.attributes)
                = [k \in 1..Len(SourceTexts(node.attributes, MODEL_PASSTHROUGH_ATTR)) |->
                    PrismaPassThroughAttribute(
                        JsString(SourceTexts(node.attributes, MODEL_PASSTHROUGH_ATTR)[k]))]

\* C7, amended: in a declaration compiled without error every pass-through
\* attribute whose sole argument is a non-empty string literal s is emitted
\* as a pass-through attribute holding exactly s and nothing else, except on
\* a model field whose @default contains auth(), which emits no attribute.
C7_PassthroughVerbatimAmended ==
    (Compiled /\ result.ok) =>
        /\ \A i \in 1..Len(node.fields) :
            LET texts == IF DefaultContainsAuth(node.fields[i]) THEN <<>>
                         ELSE SourceTexts(node.fields[i].attributes, FIELD_PASSTHROUGH_ATTR)
            IN  TargetTexts(Emitted.fields[i].attributes)
                    = [k \in 1..Len(texts) |-> [kind |-> "PassThroughAttribute",
                                                text |-> JsString(texts[k])]]
        /\ LET texts == SourceTexts(node.attributes, MODEL_PASSTHROUGH_ATTR)
           IN  TargetTexts(Emitted.attributes)
                    = [k \in 1..Len(texts) |-> [kind |-> "PassThroughAttribute",
                                                text |-> JsString(texts[k])]]

\* the pass-through attribute of the specification's example, emitted verbatim
C7_Witness ==
    /\ pc = "generateModel"
    /\ result.ok
    /\ node.fields[1].attributes =
            <<FieldAttr(FieldPassthroughDecl, <<StringLiteral("@unique(sort: Desc)")>>)>>
    /\ Emitted.fields[1].attributes =
            <<[kind |-> "PassThroughAttribute", text |-> JsString("@unique(sort: Desc)")]>>

----------------------------------------------------------------------------
(* Claims on the types of model fields                                     *)

\* the field has no scalar type, no resolved reference and no Unsupported("...")
\* escape holding a non-empty string
NoDerivableType(field) ==
    /\ field.type.type = ""
    /\ \/ field.type.reference = Undefined
       \/ field.type.reference.ref = Undefined
    /\ \/ field.type.unsupported = Undefined
       \/ field.type.unsupported.value.type # "StringLiteral"
       \/ field.type.unsupported.value.value = ""

\* C11: a model field with no scalar type, no resolved reference type and no
\* usable unsupported-type escape makes the compilation fail; the field and
\* the fields after it are not emitted, and when the fields before it were
\* emitted the error is "Field type is not resolved: <model>.<field>".
C11_UntypedFieldFails ==
    pc = "generateModel" =>
        \A i \in 1..Len(node.fields) :
            NoDerivableType(node.fields[i]) =>
                /\ ~result.ok
                /\ Len(Emitted.fields) < i
                /\ Len(Emitted.fields) = i - 1 =>
                        result = Throw(PluginError(name,
                            "Field type is not resolved: " \o node.name \o "."
                                \o node.fields[i].name))

\* a second field whose reference is unresolved: the first field is emitted,
\* the run fails naming M.g
C11_Witness ==
    /\ pc = "generateModel"
    /\ Len(node.fields) = 2
    /\ node.fields[2].type.reference = Reference("Post", Undefined)
    /\ Len(Emitted.fields) = 1
    /\ result = Throw(PluginError(name, "Field type is not resolved: M.g"))

\* the name of the target type the source field type stands for
ExpectedTypeName(type) ==
    IF type.type # "" THEN type.type
    ELSE IF type.reference # Undefined /\ type.reference.ref # Undefined
    THEN type.reference.ref.name
    ELSE "Unsupported(\"" \o type.unsupported.value.value \o "\")"

\* C12: every emitted model field has the type named by the scalar type when
\* the source field has one, else by the resolved reference, else
\* Unsupported("<value>"); its array and optional flags are the source field's.
C12_FieldType ==
    pc = "generateModel" =>
        \A i \in 1..Len(Emitted.fields) :
            Emitted.fields[i].type =
                [type |-> ExpectedTypeName(node.fields[i].type),
                 array |-> node.fields[i].type.array,
                 optional |-> node.fields[i].type.optional]

\* an optional field of an unsupported type, emitted as Unsupported("xml")
C12_Witness ==
    /\ pc = "generateModel"
    /\ result.ok
    /\ Len(Emitted.fields) = 2
    /\ node.fields[2].type.unsupported # Undefined
    /\ node.fields[2].type.optional /\ ~node.fields[2].type.array
    /\ Emitted.fields[2].type =
            [type |-> "Unsupported(\"xml\")", array |-> FALSE, optional |-> TRUE]

----------------------------------------------------------------------------
(* Claims on documentation comments                                        *)

\* the '/// ' line that stands for a source attribute
LineOf(attr) == "/// " \o zModelGenerator_generate(attr)

\* one line for each attribute that is resolved and that the classifier
\* rejects, in the order of the attributes
SynthesizedLines(attributes) ==
    LET documented == SelectSeq(attributes,
            LAMBDA a : a.decl.ref # Undefined /\ ~isPrismaAttribute(a))
    IN  [i \in 1..Len(documented) |-> LineOf(documented[i])]

\* C14: the documentation of every emitted model, enum and model field is one
\* '/// ' line for each of its attributes that is resolved and not emittable,
\* none for an attribute whose declaration is unresolved, and after these
\* lines the author's comments, verbatim and last.
C14_DocumentationLines ==
    Compiled =>
        /\ result.ok =>
                Emitted.documentations = SynthesizedLines(node.attributes) \o node.comments
        /\ node.type = "DataModel" =>
                \A i \in 1..Len(Emitted.fields) :
                    Emitted.fields[i].documentations
                        = SynthesizedLines(node.fields[i].attributes) \o node.fields[i].comments

\* a model with @@allow, an unresolved attribute and an author's comment
C14_Witness ==
    /\ pc = "generateModel"
    /\ result.ok
    /\ node.attributes =
            << ModelAttr(AllowDecl, <<StringLiteral("all"), BooleanLiteral("true")>>),
               DataModelAttribute(Reference("@@foo", Undefined), <<>>) >>
    /\ node.comments = <<"/// M">>
    /\ Emitted.documentations = <<"/// @@allow(...)", "/// M">>

\* C15 as stated: a model field whose @default contains auth() has no target
\* attribute and no synthesized '/// ' line for any of its attributes.
C15_AuthDefaultNothingEmitted ==
    pc = "generateModel" =>
        \A i \in 1..Len(Emitted.fields) :
            DefaultContainsAuth(node.fields[i]) =>
                /\ Emitted.fields[i].attributes = <<>>
                /\ Emitted.fields[i].documentations = node.fields[i].comments

\* C15, amended: a model field whose @default contains auth() has no target
\* attribute, and no '/// ' line stands for an attribute the classifier
\* accepts; each of its resolved attributes the classifier rejects still has
\* its '/// ' line.
C15_AuthDefaultNoEmittableReachesOutput ==
    pc = "generateModel" =>
        \A i \in 1..Len(Emitted.fields) :
            DefaultContainsAuth(node.fields[i]) =>
                /\ Emitted.fields[i].attributes = <<>>
                /\ \A j \in 1..Len(node.fields[i].attributes) :
                    LET attr == node.fields[i].attributes[j]
                    IN  /\ isPrismaAttribute(attr) =>
                                LineOf(attr) \notin Range(Emitted.fields[i].documentations)
                        /\ (attr.decl.ref # Undefined /\ ~isPrismaAttribute(attr)) =>
                                LineOf(attr) \in Range(Emitted.fields[i].documentations)

\* @password next to a @default with auth(): no attribute, the '/// ' line of @password
C15_Witness ==
    /\ pc = "generateModel"
    /\ result.ok
    /\ node.fields[1].attributes =
            <<FieldAttr(DefaultDecl, <<Auth>>), FieldAttr(PasswordDecl, <<>>)>>
    /\ Emitted.fields[1].attributes = <<>>
    /\ Emitted.fields[1].documentations = <<"/// @password">>

----------------------------------------------------------------------------
(* SpecGenerator: one generator block compiled, and the preview-feature    *)
(* step applied once more to the block it has configured                   *)

InitGenerator ==
    /\ pc = "start"
    /\ node \in GeneratorPool
    /\ prismaVersion \in VersionPool
    /\ prisma = NoPrisma
    /\ result = Undefined
    /\ NoRun

GenerateGenerator ==
    /\ pc = "start"
    /\ LET done == generateGenerator(prisma, node, prismaVersion)
       IN  /\ prisma' = done.prisma
           /\ result' = done.completion
    /\ pc' = "generateGenerator"
    /\ UNCHANGED <<node, prismaVersion>>
    /\ UNCHANGED run

ConfigureAgain ==
    /\ pc = "generateGenerator"
    /\ result.ok
    /\ LET again == configurePreviewFeatures(prisma.generators[1].fields, prismaVersion)
       IN  /\ prisma' = IF again.ok
                        THEN [prisma EXCEPT !.generators[1].fields = again.value]
                        ELSE prisma
           /\ result' = IF again.ok THEN Return(Undefined) ELSE again
    /\ pc' = "configureAgain"
    /\ UNCHANGED <<node, prismaVersion>>
    /\ UNCHANGED run

NextGenerator == GenerateGenerator \/ ConfigureAgain

SpecGenerator == InitGenerator /\ [][NextGenerator]_vars

----------------------------------------------------------------------------
(* Claims on the preview features of a generator block                     *)

\* the block's provider is "prisma-client-js"
ClientJs ==
    \E i \in 1..Len(node.fields) :
        /\ node.fields[i].name = "provider"
        /\ node.fields[i].value = StringLiteral("prisma-client-js")

HasField(fields, fieldName) == \E i \in 1..Len(fields) : fields[i].name = fieldName
FieldOf(fields, fieldName) == fields[CHOOSE i \in 1..Len(fields) : fields[i].name = fieldName]

\* the source block gives previewFeatures as an array of strings, or not at all
FeaturesGiven ==
    HasField(node.fields, "previewFeatures") =>
        /\ FieldOf(node.fields, "previewFeatures").value.type = "ConfigArrayExpr"
        /\ \A i \in 1..Len(FieldOf(node.fields, "previewFeatures").value.items) :
            FieldOf(node.fields, "previewFeatures").value.items[i].type = "StringLiteral"

\* the original list of the source block
OriginalFeatures ==
    IF HasField(node.fields, "previewFeatures")
    THEN LET items == FieldOf(node.fields, "previewFeatures").value.items
         IN  [i \in 1..Len(items) |-> items[i].value]
    ELSE <<>>

\* the list the emitted block holds
EmittedFeatures ==
    JSON_parse(FieldOf(prisma.generators[1].fields, "previewFeatures").text).value.v

Count(f, list) == Cardinality({i \in 1..Len(list) : list[i] = f})

NoNewDuplicates ==
    (/\ pc \in {"generateGenerator", "configureAgain"}
     /\ result.ok
     /\ ClientJs
     /\ prismaVersion # Undefined
     /\ HasField(prisma.generators[1].fields, "previewFeatures")) =>
        \A f \in {"extendedWhereUnique", "fieldReference"} :
            Count(f, OriginalFeatures) <= 1 => Count(f, EmittedFeatures) <= 1

\* C3: the preview-feature step is idempotent: applied to a generator block
\* that already holds the output of a previous application it succeeds and
\* leaves the previewFeatures list (and the block) as it is, and no list it
\* produces holds 'extendedWhereUnique' or 'fieldReference' more than once
\* when the source list did not.
C3_NegotiationIdempotent ==
    /\ [][pc' = "configureAgain" =>
            /\ result'.ok
            /\ prisma'.generators = prisma.generators]_vars
    /\ []NoNewDuplicates

\* the step applied again below version 5 to a block it has added both features to
C3_Witness ==
    /\ pc = "configureAgain"
    /\ ClientJs
    /\ prismaVersion = Version(4, 16, 2)
    /\ OriginalFeatures = <<"fullTextSearch">>
    /\ EmittedFeatures = <<"fullTextSearch", "extendedWhereUnique", "fieldReference">>

\* C4: for a generator block whose provider is "prisma-client-js" and a
\* detected Prisma version below 5.0.0, the emitted previewFeatures list is
\* the original list, in its order, followed by 'extendedWhereUnique' and then
\* 'fieldReference', each appended only if it was absent; a block without a
\* previewFeatures field gets one, after its other fields.
C4_FeaturesAppended ==
    (/\ pc = "generateGenerator"
     /\ result.ok
     /\ ClientJs
     /\ FeaturesGiven
     /\ prismaVersion # Undefined
     /\ prismaVersion.major < 5) =>
        LET emitted == prisma.generators[1].fields
            expected ==
                OriginalFeatures
                \o (IF "extendedWhereUnique" \in Range(OriginalFeatures) THEN <<>>
                    ELSE <<"extendedWhereUnique">>)
                \o (IF "fieldReference" \in Range(OriginalFeatures) THEN <<>>
                    ELSE <<"fieldReference">>)
        IN  /\ Cardinality({i \in 1..Len(emitted) : emitted[i].name = "previewFeatures"}) = 1
            /\ EmittedFeatures = expected
            /\ [i \in 1..Len(emitted) |-> emitted[i].name]
                = [i \in 1..Len(node.fields) |-> node.fields[i].name]
                  \o (IF HasField(node.fields, "previewFeatures") THEN <<>>
                      ELSE <<"previewFeatures">>)

\* one feature present, one absent: the absent one is appended after the original list
C4_Witness ==
    /\ pc = "generateGenerator"
    /\ result.ok
    /\ ClientJs
    /\ prismaVersion = Version(4, 16, 2)
    /\ OriginalFeatures = <<"fieldReference", "fullTextSearch">>
    /\ EmittedFeatures = <<"fieldReference", "fullTextSearch", "extendedWhereUnique">>

----------------------------------------------------------------------------
(* Bounded inputs: documents and options                                   *)

MaxDecls == 3

Db ==
    DataSource("db",
        << ConfigField("provider", StringLiteral("postgresql")),
           ConfigField("url", InvocationExpr("env", <<Argument(StringLiteral("DATABASE_URL"))>>)) >>)

Role == Enum("Role", <<EnumField("USER", <<>>), EnumField("ADMIN", <<>>)>>, <<>>, <<"/// roles">>)

User ==
    DataModel("User", FALSE,
        << DataModelField("id", ScalarType("Int"),
               <<FieldAttr(IdDecl, <<>>), FieldAttr(DefaultDecl, <<InvocationExpr("now", <<>>)>>)>>,
               <<>>),
           DataModelField("role",
               DataModelFieldType("", Reference("Role", [name |-> "Role"]), Undefined, FALSE, TRUE),
               <<FieldAttr(PasswordDecl, <<>>)>>, <<>>) >>,
        << ModelAttr(ModelPassthroughDecl, <<StringLiteral("@@index([role])")>>),
           ModelAttr(MapDecl, <<StringLiteral("users")>>) >>,
        <<>>)

\* a model whose second field has a type the linker did not resolve
Broken ==
    DataModel("Broken", FALSE,
        << PlainField("f"),
           DataModelField("g",
               DataModelFieldType("", Reference("Post", Undefined), Undefined, FALSE, FALSE),
               <<>>, <<>>) >>,
        <<>>, <<>>)

Client ==
    GeneratorDecl("client",
        << ConfigField("provider", StringLiteral("prisma-client-js")),
           ConfigField("previewFeatures", ConfigArrayExpr(<<StringLiteral("fullTextSearch")>>)) >>)

DeclPool == {Db, Role, User, Broken, Client, Plugin("zod")}

\* documents of up to MaxDecls declarations, no two of one name
Documents ==
    {Model(d) : d \in {s \in SeqsUpTo(DeclPool, MaxDecls) :
                          \A k, l \in 1..Len(s) : k # l => s[k] # s[l]}}

\* what getPrismaVersion yields: nothing, a version below the minimum, the
\* minimum, a version above it
RunVersions == {Undefined, Version(3, 15, 2), PRISMA_MINIMUM_VERSION, Version(5, 4, 1)}

OptionsPool ==
    { PluginOptions(Undefined, Undefined, Undefined, Undefined),
      PluginOptions(Undefined, JsBoolean("true"), Undefined, Undefined),
      PluginOptions(JsString("./out/schema.prisma"), JsBoolean("true"), JsBoolean("false"),
          Undefined),
      PluginOptions(Undefined, JsString("true"), JsString("false"), JsString("--no-engine")),
      PluginOptions(Undefined, JsBoolean("false"), JsBoolean("false"), Undefined) }

----------------------------------------------------------------------------
(* SpecGenerate: one run of generate on a document                         *)

InitGenerate ==
    /\ pc = "start"
    /\ node \in Documents
    /\ prismaVersion \in RunVersions
    /\ prisma = NoPrisma
    /\ result = Undefined
    /\ options \in OptionsPool
    /\ cursor = 0
    /\ warnings = <<>>
    \* the directory of the output file is there or not; the file is not
    /\ disk \in {[dir |-> d, file |-> Undefined] : d \in BOOLEAN}
    /\ events = <<>>
    /\ dmmf = Undefined

\* generate up to its loop: the version warning and the new PrismaModel
Start ==
    /\ pc = "start"
    /\ warnings' = versionWarnings(prismaVersion)
    /\ prisma' = NoPrisma
    /\ cursor' = 1
    /\ pc' = "declarations"
    /\ UNCHANGED <<node, prismaVersion, result, options, disk, events, dmmf>>

\* a mutation of EmitDeclaration: the declarations are taken from the last to the first
EmitDeclaration_FromLast ==
    /\ pc = "declarations"
    /\ cursor <= Len(node.declarations)
    /\ \E done \in {generateDeclaration(prisma, node.declarations[Len(node.declarations) + 1 - cursor], prismaVersion)} :
        /\ prisma' = done.prisma
        /\ IF done.completion.ok
           THEN /\ cursor' = cursor + 1
                /\ UNCHANGED <<pc, result>>
           ELSE /\ pc' = "error"
                /\ result' = done.completion
                /\ UNCHANGED cursor
    /\ events' = IF node.declarations[Len(node.declarations) + 1 - cursor].type \in DeclarationKinds
                 THEN Append(events,
                          Event("generate" \o node.declarations[Len(node.declarations) + 1 - cursor].type,
                                node.declarations[Len(node.declarations) + 1 - cursor].name, "", "call"))
                 ELSE events
    /\ UNCHANGED <<node, prismaVersion, options, warnings, disk, dmmf>>

\* a mutation of EmitDeclaration: what a declaration throws is dropped and the
\* loop goes on
EmitDeclaration_Continue ==
    /\ pc = "declarations"
    /\ cursor <= Len(node.declarations)
    /\ \E done \in {generateDeclaration(prisma, node.declarations[cursor], prismaVersion)} :
        prisma' = done.prisma
    /\ cursor' = cursor + 1
    /\ events' = IF node.declarations[cursor].type \in DeclarationKinds
                 THEN Append(events,
                          Event("generate" \o node.declarations[cursor].type,
                                node.declarations[cursor].name, "", "call"))
                 ELSE events
    /\ UNCHANGED <<pc, result, node, prismaVersion, options, warnings, disk, dmmf>>

\* one turn of the loop over model.declarations; what a declaration throws
\* leaves generate
EmitDeclaration ==
    /\ pc = "declarations"
    /\ cursor <= Len(node.declarations)
    /\ \E done \in {generateDeclaration(prisma, node.declarations[cursor], prismaVersion)} :
        /\ prisma' = done.prisma
        /\ IF done.completion.ok
           THEN /\ cursor' = cursor + 1
                /\ UNCHANGED <<pc, result>>
           ELSE /\ pc' = "error"
                /\ result' = done.completion
                /\ UNCHANGED cursor
    /\ events' = IF node.declarations[cursor].type \in DeclarationKinds
                 THEN Append(events,
                          Event("generate" \o node.declarations[cursor].type,
                                node.declarations[cursor].name, "", "call"))
                 ELSE events
    /\ UNCHANGED <<node, prismaVersion, options, warnings, disk, dmmf>>

\* a mutation of PrepareOutput: writeFile is called and not awaited
PrepareOutput_NoAwait ==
    /\ pc = "declarations"
    /\ cursor > Len(node.declarations)
    /\ disk' = [disk EXCEPT !.dir = TRUE]
    /\ \E then \in {formatStep(options,
                        (IF disk.dir THEN events
                         ELSE Append(events, Event("mkdirSync", outFile(options), "", "call")))
                        \o <<Event("writeFile", outFile(options), "", "call")>>,
                        warnings)} :
        /\ pc' = then.pc
        /\ events' = then.events
        /\ result' = then.result
    /\ UNCHANGED <<node, prismaVersion, prisma, options, cursor, warnings, dmmf>>

\* after the loop: the directory is made when it is missing and writeFile is called
PrepareOutput ==
    /\ pc = "declarations"
    /\ cursor > Len(node.declarations)
    /\ disk' = [disk EXCEPT !.dir = TRUE]
    /\ events' = (IF disk.dir THEN events
                  ELSE Append(events, Event("mkdirSync", outFile(options), "", "call")))
                 \o <<Event("writeFile", outFile(options), "", "call")>>
    /\ pc' = "writeFile"
    /\ UNCHANGED <<node, prismaVersion, prisma, result, options, cursor, warnings, dmmf>>

\* writeFile resolves: the file holds the text, and generate goes on to the
\* format step, to the client step or to its return
WriteFileResolves ==
    /\ pc = "writeFile"
    /\ disk' = [disk EXCEPT !.file = schemaText(prisma)]
    /\ \E then \in {formatStep(options,
                        Append(events, Event("writeFile", outFile(options), "", "resolved")),
                        warnings)} :
        /\ pc' = then.pc
        /\ events' = then.events
        /\ result' = then.result
    /\ UNCHANGED <<node, prismaVersion, prisma, options, cursor, warnings, dmmf>>

\* writeFile rejects: the rejection leaves generate
WriteFileRejects ==
    /\ pc = "writeFile"
    /\ events' = Append(events, Event("writeFile", outFile(options), "", "rejected"))
    /\ result' = Throw([type |-> "Error", message |-> "EACCES: permission denied"])
    /\ pc' = "error"
    /\ UNCHANGED <<node, prismaVersion, prisma, options, cursor, warnings, disk, dmmf>>

\* 'prisma format' succeeds: it has rewritten the file
FormatResolves ==
    /\ pc = "format"
    /\ disk' = [disk EXCEPT !.file = formattedText(@)]
    /\ \E then \in {clientStep(options,
                        Append(events, Event("execSync", formatCmd(options), "", "resolved")),
                        warnings)} :
        /\ pc' = then.pc
        /\ events' = then.events
        /\ result' = then.result
    /\ UNCHANGED <<node, prismaVersion, prisma, options, cursor, warnings, dmmf>>

\* a mutation of FormatRejects: what 'prisma format' throws leaves generate
FormatRejects_Throws ==
    /\ pc = "format"
    /\ events' = Append(events, Event("execSync", formatCmd(options), "", "rejected"))
    /\ result' = Throw(PluginError(name, "Failed to format Prisma schema file"))
    /\ pc' = "error"
    /\ UNCHANGED <<node, prismaVersion, prisma, options, cursor, warnings, disk, dmmf>>

\* 'prisma format' fails: the catch block adds a warning
FormatRejects ==
    /\ pc = "format"
    /\ warnings' = Append(warnings, "Failed to format Prisma schema file")
    /\ \E then \in {clientStep(options,
                        Append(events, Event("execSync", formatCmd(options), "", "rejected")),
                        warnings')} :
        /\ pc' = then.pc
        /\ events' = then.events
        /\ result' = then.result
    /\ UNCHANGED <<node, prismaVersion, prisma, options, cursor, disk, dmmf>>

\* a mutation of GenerateResolves: generate returns an empty list
GenerateResolves_NoWarnings ==
    /\ pc = "generate"
    /\ events' = Append(events, Event("execSync", generateCmd(options), "ignore", "resolved"))
    /\ result' = Return(<<>>)
    /\ pc' = "done"
    /\ UNCHANGED <<node, prismaVersion, prisma, options, cursor, warnings, disk, dmmf>>

\* 'prisma generate' succeeds: generate returns the warnings
GenerateResolves ==
    /\ pc = "generate"
    /\ events' = Append(events, Event("execSync", generateCmd(options), "ignore", "resolved"))
    /\ result' = Return(warnings)
    /\ pc' = "done"
    /\ UNCHANGED <<node, prismaVersion, prisma, options, cursor, warnings, disk, dmmf>>

\* a mutation of GenerateRejects: generate throws as soon as 'prisma generate'
\* fails, and the command is not run again
GenerateRejects_NoRetry ==
    /\ pc = "generate"
    /\ events' = Append(events, Event("execSync", generateCmd(options), "ignore", "rejected"))
    /\ result' = Throw(PluginError(name, "Failed to run \"prisma generate\""))
    /\ pc' = "error"
    /\ UNCHANGED <<node, prismaVersion, prisma, options, cursor, warnings, disk, dmmf>>

\* 'prisma generate' fails: the catch block calls trackPrismaSchemaError, which
\* reads the file and awaits getDMMF
GenerateRejects ==
    /\ pc = "generate"
    /\ events' = events
            \o << Event("execSync", generateCmd(options), "ignore", "rejected"),
                  Event("getDMMF", outFile(options), "", "call") >>
    /\ pc' = "trackPrismaSchemaError"
    /\ UNCHANGED <<node, prismaVersion, prisma, result, options, cursor, warnings, disk, dmmf>>

\* getDMMF settles; when it rejects with an Error the message is tracked, and
\* nothing leaves trackPrismaSchemaError; 'prisma generate' is then run again
\* with its output on the console
TrackSettles ==
    /\ pc = "trackPrismaSchemaError"
    /\ \E settled \in {"resolved", "rejected"} :
        events' = events
            \o <<Event("getDMMF", outFile(options), "", settled)>>
            \o (IF settled = "rejected"
                THEN <<Event("telemetry.track", "prisma:error", "", "call")>> ELSE <<>>)
            \o <<Event("execSync", generateCmd(options), "", "call")>>
    /\ pc' = "generateAgain"
    /\ UNCHANGED <<node, prismaVersion, prisma, result, options, cursor, warnings, disk, dmmf>>

\* the second 'prisma generate' settles either way; generate throws
GenerateAgainSettles ==
    /\ pc = "generateAgain"
    /\ \E again \in {"resolved", "rejected"} :
        events' = Append(events, Event("execSync", generateCmd(options), "", again))
    /\ result' = Throw(PluginError(name, "Failed to run \"prisma generate\""))
    /\ pc' = "error"
    /\ UNCHANGED <<node, prismaVersion, prisma, options, cursor, warnings, disk, dmmf>>

NextGenerate ==
    \/ Start
    \/ EmitDeclaration
    \/ PrepareOutput
    \/ WriteFileResolves
    \/ WriteFileRejects
    \/ FormatResolves
    \/ FormatRejects
    \/ GenerateResolves
    \/ GenerateRejects
    \/ TrackSettles
    \/ GenerateAgainSettles

SpecGenerate == InitGenerate /\ [][NextGenerate]_vars

----------------------------------------------------------------------------
(* Claims on the order of the output                                       *)

\* the declarations of the document the loop has gone through
Processed == SubSeq(node.declarations, 1, cursor - 1)
\* the loop has thrown
LoopFailed == pc = "error" /\ cursor <= Len(node.declarations)

NamesOf(list) == [k \in 1..Len(list) |-> list[k].name]
OfKind(declarations, kind) == SelectSeq(declarations, LAMBDA d : d.type = kind)

RECURSIVE IsSubsequence(_, _)
\* a is b with some items left out
IsSubsequence(a, b) ==
    IF a = <<>> THEN TRUE
    ELSE IF b = <<>> THEN FALSE
    ELSE IF Head(a) = Head(b) THEN IsSubsequence(Tail(a), Tail(b))
    ELSE IsSubsequence(a, Tail(b))

\* the names under which the attributes of a source declaration would show
SourceAttributeNames(attributes) ==
    [k \in 1..Len(attributes) |->
        IF attributes[k].decl.refText \in {MODEL_PASSTHROUGH_ATTR, FIELD_PASSTHROUGH_ATTR}
        THEN "PassThroughAttribute" ELSE attributes[k].decl.refText]

\* the fields of the target container are those of the source declaration, and
\* the attributes of each field and of the container keep the source's order
SameOrder(source, target) ==
    /\ NamesOf(target.fields) = NamesOf(source.fields)
    /\ \A k \in 1..Len(source.fields) :
        IsSubsequence(TargetKeys(target.fields[k].attributes),
                      SourceAttributeNames(source.fields[k].attributes))
    /\ IsSubsequence(TargetKeys(target.attributes), SourceAttributeNames(source.attributes))

EmitCalls ==
    LET calls == SelectSeq(events, LAMBDA e : e.op \in {"generate" \o k : k \in DeclarationKinds})
    IN  [k \in 1..Len(calls) |-> <<calls[k].op, calls[k].arg>>]

PhaseOf(op) ==
    CASE op = "generateDataSource" -> 1
      [] op = "generateEnum" -> 2
      [] op = "generateDataModel" -> 3
      [] op = "generateGeneratorDecl" -> 4

\* C16 as stated: all data sources are emitted before any enum, all enums
\* before any model or view and all models and views before any generator
\* block, whatever the order of the declarations in the source document.
C16_KindGroupedPhases ==
    \A k, l \in 1..Len(EmitCalls) :
        k < l => PhaseOf(EmitCalls[k][1]) <= PhaseOf(EmitCalls[l][1])

\* C16, amended: the declarations are emitted in one pass in the order of the
\* source document, each by the call for its kind, with no grouping by kind;
\* the calls made so far are those for the declarations the loop has reached.
C16_EmittedInSourceOrder ==
    pc # "start" =>
        LET reached == SubSeq(node.declarations, 1, IF LoopFailed THEN cursor ELSE cursor - 1)
            emitted == SelectSeq(reached, LAMBDA d : d.type \in DeclarationKinds)
        IN  EmitCalls = [k \in 1..Len(emitted) |->
                            <<"generate" \o emitted[k].type, emitted[k].name>>]

\* a generator, then a model, then a data source: emitted in that order
C16_Witness ==
    /\ pc = "done"
    /\ NamesOf(node.declarations) = <<"client", "User", "db">>
    /\ EmitCalls = << <<"generateGeneratorDecl", "client">>, <<"generateDataModel", "User">>,
                      <<"generateDataSource", "db">> >>

----------------------------------------------------------------------------
(* Claims on the steps of a run                                            *)

\* the places in the events of the calls of an operation, and of their ends
CallsOf(op, arg) ==
    {k \in 1..Len(events) : events[k].op = op /\ events[k].arg = arg /\ events[k].at = "call"}
EndsOf(op, arg, ends) ==
    {k \in 1..Len(events) : events[k].op = op /\ events[k].arg = arg /\ events[k].at \in ends}
Settled == {"resolved", "rejected"}

WriteCalls == CallsOf("writeFile", outFile(options))
FormatCalls == CallsOf("execSync", formatCmd(options))
GenerateCalls == CallsOf("execSync", generateCmd(options))
EmitPlaces ==
    {k \in 1..Len(events) : events[k].op \in {"generate" \o kind : kind \in DeclarationKinds}}

\* the calls of an operation that have not ended
InProgress(op, arg) ==
    Cardinality(CallsOf(op, arg)) - Cardinality(EndsOf(op, arg, Settled))

\* C17: writeFile is called only after every declaration has been emitted,
\* 'prisma format' only after writeFile has resolved, 'prisma generate' only
\* after 'prisma format' has ended or was not asked for; at no point are two
\* of the three in progress.
C17_StepsInSequence ==
    pc # "start" =>
        /\ \A k \in WriteCalls :
            /\ cursor > Len(node.declarations)
            /\ \A j \in EmitPlaces : j < k
            /\ Cardinality(EmitPlaces)
                = Len(SelectSeq(node.declarations, LAMBDA d : d.type \in DeclarationKinds))
        /\ \A k \in FormatCalls :
            \E j \in EndsOf("writeFile", outFile(options), {"resolved"}) : j < k
        /\ \A k \in GenerateCalls :
            /\ \E j \in EndsOf("writeFile", outFile(options), {"resolved"}) : j < k
            /\ IF options.format = JsBoolean("true")
               THEN \E j \in EndsOf("execSync", formatCmd(options), Settled) : j < k
               ELSE FormatCalls = {}
        /\ InProgress("writeFile", outFile(options))
            + InProgress("execSync", formatCmd(options))
            + InProgress("execSync", generateCmd(options)) <= 1

\* a run with all three steps, each begun after the one before has ended
C17_Witness ==
    /\ pc = "done"
    /\ NamesOf(node.declarations) = <<"db", "User">>
    /\ disk.file # Undefined
    /\ [k \in 1..Len(events) |-> <<events[k].op, events[k].at>>] =
            << <<"generateDataSource", "call">>, <<"generateDataModel", "call">>,
               <<"mkdirSync", "call">>,
               <<"writeFile", "call">>, <<"writeFile", "resolved">>,
               <<"execSync", "call">>, <<"execSync", "rejected">>,
               <<"execSync", "call">>, <<"execSync", "resolved">> >>

\* the names of everything in the target document
EmittedNames ==
    Range(NamesOf(prisma.datasources)) \cup Range(NamesOf(prisma.generators))
        \cup Range(NamesOf(prisma.enums)) \cup Range(NamesOf(prisma.models))

\* a declaration has thrown: generate has ended with what it threw, nothing
\* after that declaration was gone through, and no directory, file or
\* subprocess was touched
StoppedAtDeclaration ==
    LoopFailed =>
        /\ ~result.ok
        /\ Len(EmitCalls) = Len(SelectSeq(SubSeq(node.declarations, 1, cursor),
                                    LAMBDA d : d.type \in DeclarationKinds))
        /\ EmittedNames \subseteq Range(NamesOf(SubSeq(node.declarations, 1, cursor)))
        /\ \A k \in 1..Len(events) : events[k].op \notin {"mkdirSync", "writeFile", "execSync"}
        /\ disk.file = Undefined

\* C18: an error thrown while a declaration is emitted ends the run at once:
\* no later declaration is gone through, the output directory is not made, the
\* output file is not written, no subprocess is run, and no step follows.
C18_ErrorStopsRun ==
    /\ []StoppedAtDeclaration
    /\ [][/\ ~LoopFailed
          /\ (pc = "declarations" /\ cursor <= Len(node.declarations))
                => \E done \in {generateDeclaration(prisma, node.declarations[cursor],
                                                    prismaVersion)} :
                        ~done.completion.ok
                            => /\ LoopFailed'
                               /\ cursor' = cursor
                               /\ result' = done.completion
                               /\ disk' = disk
                               /\ warnings' = warnings]_vars

\* the second of three declarations throws: the third is not emitted, nothing is written
C18_Witness ==
    /\ pc = "error"
    /\ NamesOf(node.declarations) = <<"Role", "Broken", "db">>
    /\ cursor = 2
    /\ result = Throw(PluginError(name, "Field type is not resolved: Broken.g"))
    /\ prisma.datasources = <<>>
    /\ ~disk.dir
    /\ disk.file = Undefined
    /\ Len(events) = 2

----------------------------------------------------------------------------
(* Claims on the client-generate step                                      *)

\* the places in the history where 'prisma generate' was called with its
\* output ignored (the first run) and with its output on the console (the retry)
FirstRuns == {k \in GenerateCalls : events[k].stdio = "ignore"}
Retries == {k \in GenerateCalls : events[k].stdio = ""}
FirstRunEnded(at) ==
    \E k \in 1..Len(events) : events[k] = Event("execSync", generateCmd(options), "ignore", at)
RetryEnded ==
    \E k \in 1..Len(events) :
        /\ events[k].op = "execSync" /\ events[k].arg = generateCmd(options)
        /\ events[k].stdio = "" /\ events[k].at \in Settled
        /\ \A r \in Retries : r < k

FailedToRunGenerate == Throw(PluginError(name, "Failed to run \"prisma generate\""))

RetryOnlyAfterFailure ==
    /\ Cardinality(FirstRuns) <= 1
    /\ Cardinality(Retries) <= 1
    /\ \A r \in Retries :
        \E k \in 1..(r - 1) :
            events[k] = Event("execSync", generateCmd(options), "ignore", "rejected")
    /\ FirstRunEnded("resolved") =>
        /\ Retries = {}
        /\ pc = "done"
        /\ result = Return(warnings)
    /\ FirstRunEnded("rejected") =>
        /\ pc \in {"trackPrismaSchemaError", "generateAgain", "error"}
        /\ pc = "error" => result = FailedToRunGenerate
    /\ result = FailedToRunGenerate =>
        /\ FirstRunEnded("rejected")
        /\ Cardinality(Retries) = 1
        /\ RetryEnded
    /\ pc \in {"trackPrismaSchemaError", "generateAgain"} => ENABLED NextGenerate

\* C19: when the first 'prisma generate' fails the same command is run again
\* exactly once with its output on the console and generate then throws
\* 'Failed to run "prisma generate"', only after the second run has ended; when
\* the first run succeeds the command is not run again and generate returns.
C19_RetryOnceThenFatal ==
    /\ []RetryOnlyAfterFailure
    /\ [][/\ (pc = "generate" /\ FirstRunEnded("rejected")')
                => (pc' = "trackPrismaSchemaError" /\ UNCHANGED result)
          /\ pc = "trackPrismaSchemaError"
                => /\ pc' = "generateAgain"
                   /\ events'[Len(events')] = Event("execSync", generateCmd(options), "", "call")
                   /\ UNCHANGED result
          /\ pc = "generateAgain"
                => /\ pc' = "error"
                   /\ result' = FailedToRunGenerate
                   /\ events'[Len(events')].at \in Settled]_vars

\* the first run failed, the retry failed too, generate has thrown
C19_Witness ==
    /\ pc = "error"
    /\ result = FailedToRunGenerate
    /\ Cardinality(GenerateCalls) = 2
    /\ FirstRunEnded("rejected")
    /\ events[Len(events)] = Event("execSync", generateCmd(options), "", "rejected")

----------------------------------------------------------------------------
(* Claims on the format step                                               *)

FormatWarning == "Failed to format Prisma schema file"
FormatFailed ==
    \E k \in 1..Len(events) : events[k] = Event("execSync", formatCmd(options), "", "rejected")
FormatWarnings == {k \in 1..Len(warnings) : warnings[k] = FormatWarning}

\* after a failed 'prisma format' there is one warning of it, the file is the
\* text that was written, and the only error generate can end with is the one
\* of the client step
FormatFailureKept ==
    /\ Cardinality(FormatWarnings) = (IF FormatFailed THEN 1 ELSE 0)
    /\ FormatFailed =>
        /\ disk.file = schemaText(prisma)
        /\ pc \in {"generate", "trackPrismaSchemaError", "generateAgain", "done", "error"}
        /\ pc = "error" => result = FailedToRunGenerate
        /\ pc = "done" => (result = Return(warnings) /\ options.generateClient = JsBoolean("false"))
                            \/ FirstRunEnded("resolved")

\* C20: a failure of 'prisma format' never ends the run: it adds exactly one
\* warning 'Failed to format Prisma schema file', leaves the written file as it
\* is, and generate goes on to the client-generate step (which the
\* generateClient option may switch off, and generate then returns the warnings).
C20_FormatFailureIsWarning ==
    /\ []FormatFailureKept
    /\ [][(pc = "format" /\ FormatFailed')
            => /\ warnings' = Append(warnings, FormatWarning)
               /\ disk' = disk
               /\ IF options.generateClient # JsBoolean("false")
                  THEN /\ pc' = "generate"
                       /\ events'[Len(events')]
                            = Event("execSync", generateCmd(options), "ignore", "call")
                       /\ UNCHANGED result
                  ELSE /\ pc' = "done"
                       /\ result' = Return(warnings')]_vars

\* 'prisma format' has failed and 'prisma generate' is running on the file as written
C20_Witness ==
    /\ pc = "generate"
    /\ FormatFailed
    /\ warnings[Len(warnings)] = FormatWarning
    /\ disk.file = schemaText(prisma)
    /\ Len(prisma.models) > 0

----------------------------------------------------------------------------
(* Claims on the warnings                                                  *)

\* major.minor.patch precedence
Below(a, b) == <<a.major, a.minor, a.patch>> # <<b.major, b.minor, b.patch>>
                /\ \E k \in 1..3 :
                    /\ <<a.major, a.minor, a.patch>>[k] < <<b.major, b.minor, b.patch>>[k]
                    /\ \A l \in 1..(k - 1) :
                        <<a.major, a.minor, a.patch>>[l] = <<b.major, b.minor, b.patch>>[l]

VersionTooLow == prismaVersion # Undefined /\ Below(prismaVersion, PRISMA_MINIMUM_VERSION)
VersionWarnings == {k \in 1..Len(warnings) : warnings[k] # FormatWarning}

\* the declarations of the kinds the loop emits
Emittable == SelectSeq(node.declarations, LAMBDA d : d.type \in DeclarationKinds)

VersionWarningOnce ==
    pc # "start" =>
        /\ Cardinality(VersionWarnings) = (IF VersionTooLow THEN 1 ELSE 0)
        /\ VersionTooLow =>
            warnings[1] = "ZenStack requires Prisma version \"4.8.0\" or higher. Detected version is \""
                            \o VersionText(prismaVersion) \o "\"."
        \* the loop is over and nothing was thrown: every declaration was emitted
        /\ (pc # "declarations" /\ ~LoopFailed) => Len(EmitCalls) = Len(Emittable)
        /\ pc \in {"format", "generate", "trackPrismaSchemaError", "generateAgain", "done"}
            => disk.file # Undefined

\* C21: a detected version below the minimum adds exactly one version warning
\* and the run still emits every declaration and writes the file; a version at
\* or above the minimum, or no detected version, adds no such warning.
C21_VersionTooLowIsWarning ==
    /\ []VersionWarningOnce
    /\ [][pc = "start" => (pc' = "declarations" /\ cursor' = 1 /\ UNCHANGED result)]_vars

\* version 3.15.2: the warning is there, three declarations were emitted, the file is written
C21_Witness ==
    /\ pc = "done"
    /\ prismaVersion = Version(3, 15, 2)
    /\ warnings = <<"ZenStack requires Prisma version \"4.8.0\" or higher. Detected version is \"3.15.2\".">>
    /\ Len(EmitCalls) = 3
    /\ disk.file = schemaText(prisma)
    /\ result = Return(warnings)

\* generate has ended, by a return or by a throw
Ended == pc \in {"done", "error"}

\* the warnings of a run, in the order they are pushed
RecordedWarnings ==
    (IF VersionTooLow
     THEN <<"ZenStack requires Prisma version \"4.8.0\" or higher. Detected version is \""
                \o VersionText(prismaVersion) \o "\".">>
     ELSE <<>>)
    \o (IF FormatFailed THEN <<FormatWarning>> ELSE <<>>)

\* C22 as stated: in every run in which a warning was recorded, the warnings
\* are in the list generate returns.
C22_WarningsAlwaysReturned ==
    (Ended /\ warnings # <<>>) => result = Return(warnings)

\* C22, amended: warnings are never thrown; every run that ends without a
\* throw returns every warning recorded, in the order recorded; a run that ends
\* with a throw hands no warning to the caller.
C22_WarningsReturnedOnSuccess ==
    /\ pc # "start" => warnings = RecordedWarnings
    /\ pc = "done" => result = Return(RecordedWarnings)
    /\ pc = "error" =>
        /\ ~result.ok
        /\ \A k \in 1..Len(warnings) : result.error.message # warnings[k]

\* both warnings were recorded and are returned in that order
C22_Witness ==
    /\ pc = "done"
    /\ Len(warnings) = 2
    /\ result = Return(<<warnings[1], FormatWarning>>)
    /\ warnings[1] # FormatWarning

\* a warning was recorded and generate threw
C22_WarningLost ==
    /\ pc = "error"
    /\ warnings # <<>>

----------------------------------------------------------------------------
(* Claims on the failures of a generator block                             *)

MustBeAnArray == Throw(PluginError(name, "option \"previewFeatures\" must be an array"))

\* the source block has a previewFeatures field whose value is no array
NonArrayFeatures ==
    /\ HasField(node.fields, "previewFeatures")
    /\ FieldOf(node.fields, "previewFeatures").value.type # "ConfigArrayExpr"

\* the source block has a previewFeatures field whose value is a literal: its
\* text is JSON for a string, a number or a boolean
LiteralFeatures ==
    /\ HasField(node.fields, "previewFeatures")
    /\ isLiteralExpr(FieldOf(node.fields, "previewFeatures").value)

\* C23 as stated: a generator block whose previewFeatures is no array fails
\* with 'option "previewFeatures" must be an array', whatever its provider and
\* whether or not a Prisma version is detected.
C23_NonArrayAlwaysFatal ==
    (pc = "generateGenerator" /\ NonArrayFeatures) => result = MustBeAnArray

\* C23, amended: the error 'option "previewFeatures" must be an array' is
\* thrown exactly for a block whose provider is "prisma-client-js", compiled
\* with a detected Prisma version, whose previewFeatures value is a literal;
\* under another provider, without a provider or without a detected version a
\* previewFeatures value that is no array is emitted as translated.
C23_NonArrayFatalWhenNegotiated ==
    pc = "generateGenerator" =>
        /\ result = MustBeAnArray <=> (ClientJs /\ prismaVersion # Undefined /\ LiteralFeatures)
        /\ (NonArrayFeatures /\ LiteralFeatures /\ ~(ClientJs /\ prismaVersion # Undefined)) =>
            /\ result.ok
            /\ FieldOf(prisma.generators[1].fields, "previewFeatures").text
                = literalToText(FieldOf(node.fields, "previewFeatures").value)

\* previewFeatures = "fieldReference" under prisma-client-js and Prisma 5.4.1
C23_Witness ==
    /\ pc = "generateGenerator"
    /\ ClientJs
    /\ prismaVersion = Version(5, 4, 1)
    /\ LiteralFeatures
    /\ FieldOf(node.fields, "previewFeatures").value = StringLiteral("fieldReference")
    /\ result = MustBeAnArray
    /\ Len(prisma.generators) = 1

\* C24: every failure the compiler raises itself reaches the caller as a
\* PluginError that carries the plugin's name and a message, never as another
\* kind of exception; here for the failures of a generator block, among them
\* a previewFeatures value that is no array.
C24_FailuresArePluginErrors ==
    (pc = "generateGenerator" /\ ~result.ok) =>
        /\ result.error.type = "PluginError"
        /\ result.error.plugin = name
        /\ result.error.message # ""

\* the fields of the source block as configExprToText translates them
TranslatedFields ==
    [i \in 1..Len(node.fields) |->
        SimpleField(node.fields[i].name, configExprToText(node.fields[i].value).value)]

\* the negotiation does not apply: another provider, no provider, no version
NotNegotiated == ~ClientJs \/ prismaVersion = Undefined

\* C27: the preview-feature step leaves the fields of a generator block as
\* translated from the source when the provider is not "prisma-client-js",
\* when there is no provider, or when no Prisma version is detected; with a
\* detected version of 5.0.0 or higher it adds neither 'extendedWhereUnique'
\* nor 'fieldReference', and a block without previewFeatures gets none.
C27_NegotiationFrame ==
    (pc = "generateGenerator" /\ result.ok) =>
        /\ NotNegotiated => prisma.generators[1].fields = TranslatedFields
        /\ (~NotNegotiated /\ ~Below(prismaVersion, Version(5, 0, 0))) =>
            /\ NamesOf(prisma.generators[1].fields) = NamesOf(node.fields)
            /\ \A i \in 1..Len(node.fields) :
                node.fields[i].name # "previewFeatures"
                    => prisma.generators[1].fields[i] = TranslatedFields[i]
            /\ HasField(node.fields, "previewFeatures") =>
                /\ FeaturesGiven
                /\ EmittedFeatures = OriginalFeatures

\* prisma-client-js, Prisma 5.0.0, no previewFeatures in the source: none is added
C27_Witness ==
    /\ pc = "generateGenerator"
    /\ result.ok
    /\ ClientJs
    /\ prismaVersion = Version(5, 0, 0)
    /\ ~HasField(node.fields, "previewFeatures")
    /\ NamesOf(prisma.generators[1].fields) = <<"provider", "output">>

\* prisma-client-py, Prisma 4.16.2, a list without the two features: the list is as translated
C27_WitnessOtherProvider ==
    /\ pc = "generateGenerator"
    /\ result.ok
    /\ ~ClientJs
    /\ HasField(node.fields, "provider")
    /\ prismaVersion = Version(4, 16, 2)
    /\ HasField(node.fields, "previewFeatures")
    /\ FieldOf(prisma.generators[1].fields, "previewFeatures").text = "[\"fullTextSearch\"]"

----------------------------------------------------------------------------
(* Claims on the optional steps                                            *)

WriteResolved == EndsOf("writeFile", outFile(options), {"resolved"}) # {}
\* the run has come to 'const generateClient = ...'
ReachedClientStep ==
    /\ WriteResolved
    /\ options.format = JsBoolean("true") => EndsOf("execSync", formatCmd(options), Settled) # {}

\* C28: 'prisma format' is run only when options.format is exactly true;
\* 'prisma generate' is run in every run that comes to it unless
\* options.generateClient is exactly false, so also when the option is absent.
C28_OptionalStepsGated ==
    /\ FormatCalls # {} <=> (WriteResolved /\ options.format = JsBoolean("true"))
    /\ GenerateCalls # {} <=> (ReachedClientStep /\ options.generateClient # JsBoolean("false"))
    /\ (ReachedClientStep /\ options.generateClient = JsBoolean("false")) =>
        (pc = "done" /\ result = Return(warnings))

\* format is the string "true" and generateClient the string "false": no
\* 'prisma format', and 'prisma generate' has run
C28_Witness ==
    /\ pc = "done"
    /\ options.format = JsString("true")
    /\ options.generateClient = JsString("false")
    /\ FormatCalls = {}
    /\ Cardinality(GenerateCalls) = 1

\* both options absent: no 'prisma format', and 'prisma generate' has run
C28_WitnessAbsent ==
    /\ pc = "done"
    /\ options.format = Undefined
    /\ options.generateClient = Undefined
    /\ FormatCalls = {}
    /\ Cardinality(GenerateCalls) = 1

----------------------------------------------------------------------------
(* SpecVersion: the version detection of the SDK under a run of generate,  *)
(* with the installed Prisma package changing underneath                   *)

\* nothing is memoized yet
NotDetected == [t |-> "notDetected"]

\* a mutation of getPrismaVersion: the installed package is read at every call
getPrismaVersion_NoMemo(memo, installed) == installed

\* getPrismaVersion(): the first call reads the version of the installed
\* package (undefined when there is none) and keeps it; later calls give what
\* was kept
getPrismaVersion(memo, installed) ==
    IF memo = NotDetected THEN installed ELSE memo

Bare ==
    GeneratorDecl("bare", <<ConfigField("provider", StringLiteral("prisma-client-js"))>>)

VersionDocuments ==
    {Model(d) : d \in {s \in SeqsUpTo({Client, Bare, Db}, MaxDecls) :
                          \A k, l \in 1..Len(s) : k # l => s[k] # s[l]}}

InitVersion ==
    /\ pc = "start"
    /\ node \in VersionDocuments
    /\ prismaVersion = NotDetected
    /\ prisma = NoPrisma
    /\ result = Undefined
    /\ options = Undefined
    /\ cursor = 0
    /\ warnings = <<>>
    /\ disk \in {[installed |-> v] : v \in RunVersions}
    /\ events = <<>>
    /\ dmmf = Undefined

\* how a call of getPrismaVersion got its value
HowDetected == IF prismaVersion = NotDetected THEN "detected" ELSE "reused"

\* generate up to its loop, with its call of getPrismaVersion
VersionStart ==
    /\ pc = "start"
    /\ \E v \in {getPrismaVersion(prismaVersion, disk.installed)} :
        /\ prismaVersion' = v
        /\ warnings' = versionWarnings(v)
        /\ events' = Append(events, Event("getPrismaVersion", v, "generate", HowDetected))
    /\ prisma' = NoPrisma
    /\ cursor' = 1
    /\ pc' = "declarations"
    /\ UNCHANGED <<node, result, options, disk, dmmf>>

\* one turn of the loop; a generator block with the provider
\* "prisma-client-js" calls getPrismaVersion
VersionEmit ==
    /\ pc = "declarations"
    /\ cursor <= Len(node.declarations)
    /\ \E v \in {getPrismaVersion(prismaVersion, disk.installed)} :
        /\ \E done \in {generateDeclaration(prisma, node.declarations[cursor], v)} :
            /\ prisma' = done.prisma
            /\ IF done.completion.ok
               THEN /\ cursor' = cursor + 1
                    /\ UNCHANGED <<pc, result>>
               ELSE /\ pc' = "error"
                    /\ result' = done.completion
                    /\ UNCHANGED cursor
        /\ IF /\ node.declarations[cursor].type = "GeneratorDecl"
              /\ \E i \in 1..Len(node.declarations[cursor].fields) :
                    /\ node.declarations[cursor].fields[i].name = "provider"
                    /\ node.declarations[cursor].fields[i].value
                            = StringLiteral("prisma-client-js")
           THEN /\ prismaVersion' = v
                /\ events' = Append(events,
                                Event("getPrismaVersion", v, node.declarations[cursor].name,
                                      HowDetected))
           ELSE UNCHANGED <<prismaVersion, events>>
    /\ UNCHANGED <<node, options, warnings, disk, dmmf>>

\* the environment: another Prisma package is installed, or Prisma is removed
Reinstall ==
    /\ \E v \in RunVersions \ {disk.installed} : disk' = [installed |-> v]
    /\ UNCHANGED <<pc, node, prismaVersion, prisma, result, options, cursor, warnings, events, dmmf>>

NextVersion == VersionStart \/ VersionEmit \/ Reinstall

SpecVersion == InitVersion /\ [][NextVersion]_vars

\* the calls of getPrismaVersion so far
VersionReads == SelectSeq(events, LAMBDA e : e.op = "getPrismaVersion")

\* the generator blocks emitted so far, in the order of the source
GeneratorsEmitted == SelectSeq(Processed, LAMBDA d : d.type = "GeneratorDecl")

OneVersionPerRun ==
    /\ \A k \in 1..Len(VersionReads) :
        /\ VersionReads[k].arg = VersionReads[1].arg
        /\ VersionReads[k].at = (IF k = 1 THEN "detected" ELSE "reused")
    /\ pc # "start" =>
        /\ prismaVersion = VersionReads[1].arg
        /\ warnings = versionWarnings(VersionReads[1].arg)
        /\ \A k \in 1..Len(prisma.generators) :
            prisma.generators[k]
                = generateGenerator(NoPrisma, GeneratorsEmitted[k], VersionReads[1].arg)
                        .prisma.generators[1]

\* C25: the version detection is memoized: the first call computes the
\* version and later calls reuse it, so within one run the minimum-version
\* warning and the preview-feature step of every generator block see the same
\* version, whatever happens to the installed package meanwhile.
C25_VersionMemoized ==
    /\ []OneVersionPerRun
    /\ [][prismaVersion # NotDetected => prismaVersion' = prismaVersion]_vars

\* Prisma 3.15.2 was detected at the start and 5.4.1 installed afterwards: the
\* two generator blocks still got the features of a version below 5
C25_Witness ==
    /\ pc = "declarations"
    /\ Len(VersionReads) = 3
    /\ prismaVersion = Version(3, 15, 2)
    /\ disk.installed = Version(5, 4, 1)
    /\ Len(warnings) = 1
    /\ Len(prisma.generators) = 2
    /\ \A k \in 1..2 : HasField(prisma.generators[k].fields, "previewFeatures")

----------------------------------------------------------------------------
(* The hooks generator: generate                                           *)

\* the hooks plugin's name, imported from '.'
HooksPluginName == "Tanstack Query"

supportedTargets == <<"react", "vue", "svelte">>

\* the options of the hooks plugin; 'name' is the plugin's name in the schema
HooksOptions(n, output, target, version) ==
    [name |-> n, output |-> output, target |-> target, version |-> version]

\* requireOption of the SDK: the option's value, or a PluginError when it is undefined
requireOption(opts, option, pluginName) ==
    IF opts[option] = Undefined
    THEN Throw(PluginError(pluginName,
            "Plugin \"" \o opts.name \o "\" is missing required option: " \o option))
    ELSE Return(opts[option])

\* resolvePath of the SDK, for a relative path: under the schema's folder
resolvePath(output) == "/app/" \o output.v

\* path.join(dir, file)
pathJoin(dir, file) == dir \o "/" \o file

\* the text a template literal gives for a value
TemplateText(x) ==
    CASE x.t = "string" -> x.v
      [] x.t = "number" -> x.v
      [] x.t = "boolean" -> x.v
      [] OTHER -> "undefined"

\* upperCaseFirst, on the names of the operations and the models used here
upperCaseFirst(text) ==
    CASE text = "create" -> "Create"
      [] text = "createMany" -> "CreateMany"
      [] text = "findMany" -> "FindMany"
      [] text = "findUnique" -> "FindUnique"
      [] text = "findFirst" -> "FindFirst"
      [] text = "update" -> "Update"
      [] text = "updateMany" -> "UpdateMany"
      [] text = "upsert" -> "Upsert"
      [] text = "delete" -> "Delete"
      [] text = "deleteMany" -> "DeleteMany"
      [] text = "aggregate" -> "Aggregate"
      [] text = "groupBy" -> "GroupBy"
      [] text = "count" -> "Count"
      [] text = "blogPost" -> "BlogPost"
      [] OTHER -> text

\* paramCase, on the names of the models used here
paramCase(text) ==
    CASE text = "User" -> "user"
      [] text = "BlogPost" -> "blog-post"
      [] text = "blogPost" -> "blog-post"
      [] OTHER -> text

makeRuntimeImportBase(version) ==
    "@zenstackhq/tanstack-query/runtime" \o (IF version = "v5" THEN "-v5" ELSE "")

\* the modes generateQueryHook generates a hook for
generateModes(target, version, supportInfinite) ==
    <<"">>
    \o (IF supportInfinite THEN <<"Infinite">> ELSE <<>>)
    \o (IF target = "react" /\ version = "v5"
        THEN <<"Suspense">> \o (IF supportInfinite THEN <<"SuspenseInfinite">> ELSE <<>>)
        ELSE <<>>)

\* the names of the functions generateQueryHook adds to the source file
generateQueryHook(target, version, model, operation, supportInfinite) ==
    LET modes == generateModes(target, version, supportInfinite)
    IN  [k \in 1..Len(modes) |-> "use" \o modes[k] \o upperCaseFirst(operation) \o model]

\* the name of the function generateMutationHook adds to the source file
generateMutationHook(model, operation) == <<"use" \o upperCaseFirst(operation) \o model>>

\* a model mapping of the DMMF: the operations it names
ModelMapping(model, operations) == [model |-> model, operations |-> operations]

\* the source file generateModelHooks creates for a model
generateModelHooks(target, version, outDir, model, mapping) ==
    LET has(op) == op \in mapping.operations
        when(cond, hooks) == IF cond THEN hooks ELSE <<>>
    IN  [ path |-> pathJoin(outDir, paramCase(model.name) \o ".ts"),
          imports |-> makeRuntimeImportBase(version) \o "/" \o target,
          functions |->
            when(has("create") \/ has("createOne"), generateMutationHook(model.name, "create"))
            \o when(has("createMany"), generateMutationHook(model.name, "createMany"))
            \o when(has("findMany"),
                    generateQueryHook(target, version, model.name, "findMany", TRUE))
            \o when(has("findUnique"),
                    generateQueryHook(target, version, model.name, "findUnique", FALSE))
            \o when(has("findFirst"),
                    generateQueryHook(target, version, model.name, "findFirst", FALSE))
            \o when(has("update") \/ has("updateOne"), generateMutationHook(model.name, "update"))
            \o when(has("updateMany"), generateMutationHook(model.name, "updateMany"))
            \o when(has("upsert") \/ has("upsertOne"), generateMutationHook(model.name, "upsert"))
            \o when(has("delete") \/ has("deleteOne"), generateMutationHook(model.name, "delete"))
            \o when(has("deleteMany"), generateMutationHook(model.name, "deleteMany"))
            \o when(has("aggregate"),
                    generateQueryHook(target, version, upperCaseFirst(model.name), "aggregate",
                                      FALSE))
            \o when(has("groupBy"),
                    generateQueryHook(target, version, model.name, "groupBy", FALSE))
            \o generateQueryHook(target, version, model.name, "count", FALSE) ]

\* the source file generateIndex creates
generateIndex(outDir, models, target, version) ==
    [ path |-> pathJoin(outDir, "index.ts"),
      imports |-> makeRuntimeImportBase(version),
      functions |->
        [k \in 1..Len(models) |-> "export * from './" \o paramCase(models[k].name) \o "'"]
        \o <<"export { getQueryKey } from '" \o makeRuntimeImportBase(version) \o "'">>
        \o (CASE target = "react" -> <<"Provider">>
              [] target = "vue" -> <<"VueQueryContextKey", "provideHooksContext">>
              [] target = "svelte" -> <<"SvelteQueryContextKey", "setHooksContext">>
              [] OTHER -> <<>>) ]

\* project.createSourceFile(path, undefined, { overwrite: true })
createSourceFile(files, file) ==
    IF \E k \in 1..Len(files) : files[k].path = file.path
    THEN [k \in 1..Len(files) |-> IF files[k].path = file.path THEN file ELSE files[k]]
    ELSE Append(files, file)

\* getDataModels of the SDK: the data models among the declarations
getDataModels(model) == SelectSeq(model.declarations, LAMBDA d : d.type = "DataModel")

\* dmmf.mappings.modelOperations.find((op) => op.model === dataModel.name)
findMapping(document, modelName) ==
    LET found == {k \in 1..Len(document) : document[k].model = modelName}
    IN  IF found = {} THEN Undefined ELSE document[Min(found)]

\* a mutation of hooksSettings: the target is not checked against supportedTargets
hooksSettings_AnyTarget(opts) ==
    The({ IF ~output.ok THEN output
          ELSE The({ IF ~target.ok THEN target
                     ELSE The({ IF version \notin {"v4", "v5"}
                                THEN Throw(PluginError(opts.name,
                                        "Unsupported version \"" \o version
                                            \o "\": use \"v4\" or \"v5\""))
                                ELSE Return([outDir |-> resolvePath(output.value),
                                             target |-> target.value.v,
                                             version |-> version]) :
                                version \in {IF opts.version.t = "string" THEN opts.version.v
                                             ELSE "v4"} }) :
                     target \in {requireOption(opts, "target", HooksPluginName)} }) :
          output \in {requireOption(opts, "output", HooksPluginName)} })

\* the options as generate reads them, or what it throws
hooksSettings(opts) ==
    The({ IF ~output.ok THEN output
          ELSE The({ IF ~target.ok THEN target
                     ELSE IF target.value.t # "string" \/ target.value.v \notin Range(supportedTargets)
                     THEN Throw(PluginError(opts.name,
                            "Unsupported target \"" \o TemplateText(target.value)
                                \o "\", supported values: " \o Join(supportedTargets, ", ")))
                     ELSE The({ IF version \notin {"v4", "v5"}
                                THEN Throw(PluginError(opts.name,
                                        "Unsupported version \"" \o version
                                            \o "\": use \"v4\" or \"v5\""))
                                ELSE Return([outDir |-> resolvePath(output.value),
                                             target |-> target.value.v,
                                             version |-> version]) :
                                version \in {IF opts.version.t = "string" THEN opts.version.v
                                             ELSE "v4"} }) :
                     target \in {requireOption(opts, "target", HooksPluginName)} }) :
          output \in {requireOption(opts, "output", HooksPluginName)} })

----------------------------------------------------------------------------
(* SpecHooks: one run of the hooks generator                               *)

AllOperations ==
    { "createOne", "createMany", "findMany", "findUnique", "findFirst", "updateOne",
      "updateMany", "upsertOne", "deleteOne", "deleteMany", "aggregate", "groupBy" }

HooksDeclPool ==
    { User, DataModel("BlogPost", FALSE, <<PlainField("id")>>, <<>>, <<>>), Role }

HooksDocuments ==
    {Model(d) : d \in {s \in SeqsUpTo(HooksDeclPool, MaxDecls) :
                          \A k, l \in 1..Len(s) : k # l => s[k] # s[l]}}

DmmfPool ==
    {u \o b : u \in { <<>>, <<ModelMapping("User", AllOperations)>>,
                      <<ModelMapping("User", {"findMany", "createOne"})>> },
              b \in { <<>>, <<ModelMapping("BlogPost", {"findUnique", "aggregate", "groupBy"})>> }}

HooksOptionsPool ==
    {HooksOptions("hooks", JsString("hooks"), t, v) :
        t \in {Undefined, JsString("react"), JsString("vue"), JsString("svelte"),
               JsString("angular")},
        v \in {Undefined, JsString("v4"), JsString("v5"), JsString("v3"), JsNumber("5")}}
    \cup {HooksOptions("hooks", Undefined, JsString("react"), Undefined)}

InitHooks ==
    /\ pc = "start"
    /\ node \in HooksDocuments
    /\ dmmf \in DmmfPool
    /\ options \in HooksOptionsPool
    /\ prismaVersion = Undefined
    /\ prisma = NoPrisma
    /\ result = Undefined
    /\ cursor = 0
    /\ warnings = <<>>
    \* no project yet, nothing saved
    /\ disk = [project |-> Undefined, saved |-> FALSE]
    /\ events = <<>>

\* generate up to 'await generateModelMeta': the options are read and checked
HooksStart ==
    /\ pc = "start"
    /\ disk' = IF requireOption(options, "output", HooksPluginName).ok
               THEN [disk EXCEPT !.project = <<>>] ELSE disk
    /\ \E settings \in {hooksSettings(options)} :
        IF settings.ok
        THEN /\ pc' = "generateModelMeta"
             /\ events' = Append(events,
                            Event("generateModelMeta",
                                  pathJoin(settings.value.outDir, "__model_meta.ts"), "", "call"))
             /\ UNCHANGED result
        ELSE /\ pc' = "error"
             /\ result' = settings
             /\ UNCHANGED events
    /\ UNCHANGED <<node, prismaVersion, prisma, options, cursor, warnings, dmmf>>

\* generateModelMeta resolves: the project holds the model metadata, and
\* generateIndex adds the index file
ModelMetaResolves ==
    /\ pc = "generateModelMeta"
    /\ \E settings \in {hooksSettings(options).value} :
        /\ disk' = [disk EXCEPT !.project =
                     createSourceFile(
                        createSourceFile(@,
                            [path |-> pathJoin(settings.outDir, "__model_meta.ts"),
                             imports |-> "",
                             functions |-> NamesOf(getDataModels(node))]),
                        generateIndex(settings.outDir, getDataModels(node), settings.target,
                                      settings.version))]
        /\ events' = events
            \o << Event("generateModelMeta",
                        pathJoin(settings.outDir, "__model_meta.ts"), "", "resolved"),
                  Event("generateIndex", pathJoin(settings.outDir, "index.ts"), "", "call") >>
    /\ cursor' = 1
    /\ pc' = "models"
    /\ UNCHANGED <<node, prismaVersion, prisma, result, options, warnings, dmmf>>

\* generateModelMeta rejects: the rejection leaves generate
ModelMetaRejects ==
    /\ pc = "generateModelMeta"
    /\ \E settings \in {hooksSettings(options).value} :
        events' = Append(events,
                    Event("generateModelMeta",
                          pathJoin(settings.outDir, "__model_meta.ts"), "", "rejected"))
    /\ result' = Throw([type |-> "Error", message |-> "cannot generate model metadata"])
    /\ pc' = "error"
    /\ UNCHANGED <<node, prismaVersion, prisma, options, cursor, warnings, disk, dmmf>>

\* a mutation of HooksModel: a model without a mapping ends the run with an error
HooksModel_Throws ==
    /\ pc = "models"
    /\ cursor <= Len(getDataModels(node))
    /\ \E settings \in {hooksSettings(options).value} :
        \E dataModel \in {getDataModels(node)[cursor]} :
            \E mapping \in {findMapping(dmmf, dataModel.name)} :
                IF mapping = Undefined
                THEN /\ result' = Throw(PluginError(options.name,
                                    "Unable to find mapping for model " \o dataModel.name))
                     /\ pc' = "error"
                     /\ UNCHANGED <<disk, events, warnings, cursor>>
                ELSE /\ disk' = [disk EXCEPT !.project =
                                    createSourceFile(@,
                                        generateModelHooks(settings.target, settings.version,
                                                           settings.outDir, dataModel, mapping))]
                     /\ events' = Append(events,
                                    Event("generateModelHooks", dataModel.name, "", "call"))
                     /\ cursor' = cursor + 1
                     /\ UNCHANGED <<warnings, pc, result>>
    /\ UNCHANGED <<node, prismaVersion, prisma, options, dmmf>>

\* one turn of models.forEach: a warning for a model without a mapping, the
\* hooks file for any other
HooksModel ==
    /\ pc = "models"
    /\ cursor <= Len(getDataModels(node))
    /\ \E settings \in {hooksSettings(options).value} :
        \E dataModel \in {getDataModels(node)[cursor]} :
            \E mapping \in {findMapping(dmmf, dataModel.name)} :
                IF mapping = Undefined
                THEN /\ warnings' = Append(warnings,
                                        "Unable to find mapping for model " \o dataModel.name)
                     /\ UNCHANGED <<disk, events>>
                ELSE /\ disk' = [disk EXCEPT !.project =
                                    createSourceFile(@,
                                        generateModelHooks(settings.target, settings.version,
                                                           settings.outDir, dataModel, mapping))]
                     /\ events' = Append(events,
                                    Event("generateModelHooks", dataModel.name, "", "call"))
                     /\ UNCHANGED warnings
    /\ cursor' = cursor + 1
    /\ UNCHANGED <<pc, node, prismaVersion, prisma, result, options, dmmf>>

\* the loop is over: saveProject is called and awaited
HooksSave ==
    /\ pc = "models"
    /\ cursor > Len(getDataModels(node))
    /\ events' = Append(events,
                    Event("saveProject", hooksSettings(options).value.outDir, "", "call"))
    /\ pc' = "saveProject"
    /\ UNCHANGED <<node, prismaVersion, prisma, result, options, cursor, warnings, disk, dmmf>>

\* saveProject resolves: the files are on the disk and generate returns the warnings
SaveResolves ==
    /\ pc = "saveProject"
    /\ disk' = [disk EXCEPT !.saved = TRUE]
    /\ events' = Append(events,
                    Event("saveProject", hooksSettings(options).value.outDir, "", "resolved"))
    /\ result' = Return(warnings)
    /\ pc' = "done"
    /\ UNCHANGED <<node, prismaVersion, prisma, options, cursor, warnings, dmmf>>

\* saveProject rejects: the rejection leaves generate
SaveRejects ==
    /\ pc = "saveProject"
    /\ events' = Append(events,
                    Event("saveProject", hooksSettings(options).value.outDir, "", "rejected"))
    /\ result' = Throw([type |-> "Error", message |-> "EACCES: permission denied"])
    /\ pc' = "error"
    /\ UNCHANGED <<node, prismaVersion, prisma, options, cursor, warnings, disk, dmmf>>

NextHooks ==
    \/ HooksStart
    \/ ModelMetaResolves
    \/ ModelMetaRejects
    \/ HooksModel
    \/ HooksSave
    \/ SaveResolves
    \/ SaveRejects

SpecHooks == InitHooks /\ [][NextHooks]_vars

----------------------------------------------------------------------------
(* Claims on the hooks generator                                           *)

HooksModels == getDataModels(node)
\* the models models.forEach has gone through
HooksHandled == SubSeq(HooksModels, 1, cursor - 1)
Unmapped(dataModel) == \A k \in 1..Len(dmmf) : dmmf[k].model # dataModel.name
HooksFile(dataModel) == "/app/hooks/" \o paramCase(dataModel.name) \o ".ts"
InProject(path) == \E k \in 1..Len(disk.project) : disk.project[k].path = path

\* the warnings of the models without a mapping, in the order of the models
MappingWarnings(models) ==
    LET unmapped == SelectSeq(models, Unmapped)
    IN  [k \in 1..Len(unmapped) |-> "Unable to find mapping for model " \o unmapped[k].name]

MissingMappingIsWarning ==
    /\ pc \in {"models", "saveProject", "done"} =>
        /\ warnings = MappingWarnings(HooksHandled)
        /\ \A k \in 1..Len(HooksHandled) :
            InProject(HooksFile(HooksHandled[k])) <=> ~Unmapped(HooksHandled[k])
    /\ pc \in {"saveProject", "done"} => HooksHandled = HooksModels
    /\ (pc = "done" \/ (pc # "start" /\ result # Undefined /\ result.ok)) =>
        /\ result = Return(MappingWarnings(HooksModels))
        /\ disk.saved
        /\ events[Len(events)].op = "saveProject"
    /\ (pc = "error" /\ events # <<>>) => result.error.type = "Error"

\* C26: in the hooks generator a data model without an entry in the DMMF
\* model-operation mappings adds exactly one warning 'Unable to find mapping
\* for model <name>' and gets no hooks file; every other model is still gone
\* through, the warnings are returned after the project is saved, and a
\* missing mapping never throws.
C26_MissingMappingIsWarning ==
    /\ []MissingMappingIsWarning
    /\ [][(pc = "models" /\ cursor <= Len(HooksModels))
            => (pc' = "models" /\ cursor' = cursor + 1 /\ UNCHANGED result)]_vars

\* User has no mapping and BlogPost has one: one warning, one hooks file, saved
C26_Witness ==
    /\ pc = "done"
    /\ NamesOf(HooksModels) = <<"User", "BlogPost">>
    /\ result = Return(<<"Unable to find mapping for model User">>)
    /\ ~InProject("/app/hooks/user.ts")
    /\ InProject("/app/hooks/blog-post.ts")
    /\ disk.saved

ValidTarget == options.target.t = "string" /\ options.target.v \in {"react", "vue", "svelte"}
ValidVersion == options.version.t = "string" => options.version.v \in {"v4", "v5"}
\* the version the files are generated for
EffectiveVersion ==
    IF options.version.t = "string" /\ options.version.v = "v5" THEN "v5" ELSE "v4"
RuntimeOf(version) ==
    IF version = "v5" THEN "@zenstackhq/tanstack-query/runtime-v5"
    ELSE "@zenstackhq/tanstack-query/runtime"

OptionsCheckedFirst ==
    pc # "start" =>
        /\ (~ValidTarget \/ ~ValidVersion) =>
            /\ pc = "error"
            /\ result.error.type = "PluginError"
            /\ events = <<>>
            /\ disk.project \in {Undefined, <<>>}
            /\ ~disk.saved
        /\ (ValidTarget /\ ValidVersion /\ options.output # Undefined) =>
            /\ events # <<>>
            /\ events[1].op = "generateModelMeta"
            /\ \A k \in 1..Len(disk.project) :
                disk.project[k].imports
                    \in {"", RuntimeOf(EffectiveVersion),
                         RuntimeOf(EffectiveVersion) \o "/" \o options.target.v}

\* C29: the hooks generator checks its options before it produces anything:
\* a target other than react, vue, svelte, or a version that is a string other
\* than 'v4' and 'v5', throws a PluginError before the model metadata, the
\* index file or a hooks file is generated and before the project is saved; a
\* missing version or one that is no string counts as 'v4'.
C29_OptionsCheckedFirst ==
    /\ []OptionsCheckedFirst
    /\ [][pc = "start" =>
            IF ValidTarget /\ ValidVersion /\ options.output # Undefined
            THEN pc' = "generateModelMeta" /\ UNCHANGED result
            ELSE pc' = "error" /\ UNCHANGED <<events, warnings>>]_vars

\* the version is the string "v3": a PluginError and nothing generated
C29_Witness ==
    /\ pc = "error"
    /\ options.target = JsString("react")
    /\ options.version = JsString("v3")
    /\ result = Throw(PluginError("hooks", "Unsupported version \"v3\": use \"v4\" or \"v5\""))
    /\ disk = [project |-> <<>>, saved |-> FALSE]
    /\ events = <<>>

\* the version is the number 5: it counts as 'v4', the files import the v4 runtime
C29_WitnessNoString ==
    /\ pc = "done"
    /\ options.version = JsNumber("5")
    /\ options.target = JsString("react")
    /\ Len(disk.project) = 3
    /\ \A k \in 2..Len(disk.project) :
        disk.project[k].imports \in {"@zenstackhq/tanstack-query/runtime",
                                     "@zenstackhq/tanstack-query/runtime/react"}

----------------------------------------------------------------------------
(* The tRPC helpers: getInputSchemaByOpName, getProcedureTypeByOpName,     *)
(* generateProcedure                                                       *)

MaxProcedures == 2  \* procedures written to one router

\* lowerCaseFirst, on the names of the models used here
lowerCaseFirst(text) ==
    CASE text = "User" -> "user"
      [] text = "BlogPost" -> "blogPost"
      [] OTHER -> text

\* opType.replace('One', '')
replaceOne(opType) ==
    CASE opType = "createOne" -> "create"
      [] opType = "deleteOne" -> "delete"
      [] opType = "updateOne" -> "update"
      [] opType = "upsertOne" -> "upsert"
      [] OTHER -> opType

\* the case labels of getInputSchemaByOpName, each with the member of the
\* model's input schema it selects
InputSchemaCases ==
    << <<"findUnique", "findUnique">>, <<"findFirst", "findFirst">>,
       <<"findMany", "findMany">>, <<"findRaw", "findRawObject">>,
       <<"createOne", "create">>, <<"createMany", "createMany">>,
       <<"deleteOne", "delete">>, <<"updateOne", "update">>,
       <<"deleteMany", "deleteMany">>, <<"updateMany", "updateMany">>,
       <<"upsertOne", "upsert">>, <<"aggregate", "aggregate">>,
       <<"aggregateRaw", "aggregateRawObject">>, <<"groupBy", "groupBy">>,
       <<"count", "count">> >>

getInputSchemaByOpName(opName, modelName) ==
    LET matching == {k \in 1..Len(InputSchemaCases) : InputSchemaCases[k][1] = opName}
    IN  IF matching = {} THEN Undefined
        ELSE JsString("$Schema." \o upperCaseFirst(modelName) \o "InputSchema."
                      \o InputSchemaCases[CHOOSE k \in matching : \A l \in matching : k <= l][2])

\* the case labels of getProcedureTypeByOpName, in the order of the switch
ProcedureTypeCases ==
    << <<"findUnique", "query">>, <<"findFirst", "query">>, <<"findMany", "query">>,
       <<"findRaw", "query">>, <<"aggregate", "query">>, <<"aggregateRaw", "query">>,
       <<"groupBy", "query">>, <<"count", "query">>,
       <<"createOne", "mutation">>, <<"createMany", "mutation">>,
       <<"deleteOne", "mutation">>, <<"updateOne", "mutation">>,
       <<"deleteMany", "mutation">>, <<"updateMany", "mutation">>,
       <<"upsertOne", "mutation">> >>

\* a mutation of getProcedureTypeByOpName: the raw operations have no case
getProcedureTypeByOpName_NoRaw(opName) ==
    LET matching == {k \in 1..Len(ProcedureTypeCases) :
                        /\ ProcedureTypeCases[k][1] = opName
                        /\ opName \notin {"findRaw", "aggregateRaw"}}
    IN  IF matching = {} THEN Undefined
        ELSE JsString(ProcedureTypeCases[CHOOSE k \in matching : \A l \in matching : k <= l][2])

getProcedureTypeByOpName(opName) ==
    LET matching == {k \in 1..Len(ProcedureTypeCases) : ProcedureTypeCases[k][1] = opName}
    IN  IF matching = {} THEN Undefined
        ELSE JsString(ProcedureTypeCases[CHOOSE k \in matching : \A l \in matching : k <= l][2])

\* what one writer.write of generateProcedure adds to the router
Procedure(opType, typeName, kind, call) ==
    [opType |-> opType, input |-> typeName, kind |-> kind, call |-> call]

\* the writer after generateProcedure
generateProcedure(writer, opType, typeName, modelName, baseOpType) ==
    The({ IF procType = JsString("query")
          THEN Append(writer,
                      Procedure(opType, typeName, "query",
                                "checkRead(db(ctx)." \o lowerCaseFirst(modelName) \o "."
                                    \o replaceOne(opType) \o "(input as any))"))
          ELSE IF procType = JsString("mutation")
          THEN Append(writer,
                      Procedure(opType, typeName, "mutation",
                                "checkMutate(db(ctx)." \o lowerCaseFirst(modelName) \o "."
                                    \o replaceOne(opType) \o "(input as any))"))
          ELSE writer :
          procType \in {getProcedureTypeByOpName(baseOpType)} })

----------------------------------------------------------------------------
(* SpecProcedure: the procedures of one model's router                     *)

\* the operation names of the DMMF mappings, and names that are none
OpNames ==
    {"findUnique", "findUniqueOrThrow", "findFirst", "findFirstOrThrow", "findMany",
     "findRaw", "createOne", "createMany", "deleteOne", "updateOne", "deleteMany",
     "updateMany", "upsertOne", "aggregate", "aggregateRaw", "groupBy", "count",
     "create", "update", "delete", "upsert", "model", ""}

ProcedureModels == {"User", "BlogPost", "blogPost"}

\* one call of generateProcedure: the operation and what the two helpers gave
ProcedureCall(opName, procType, inputSchema, written) ==
    [op |-> "generateProcedure", opName |-> opName, procType |-> procType,
     inputSchema |-> inputSchema, written |-> written]

InitProcedure ==
    /\ pc = "procedures"
    /\ node \in {DataModel(n, FALSE, <<PlainField("id")>>, <<>>, <<>>) : n \in ProcedureModels}
    /\ prismaVersion = Undefined
    /\ prisma = Undefined
    /\ result = Undefined
    /\ options = Undefined
    /\ cursor = 0
    /\ warnings = <<>>
    /\ disk = [writer |-> <<>>]
    /\ events = <<>>
    /\ dmmf = Undefined

\* the router generator asks for the input schema of an operation and has
\* generateProcedure write the procedure
WriteProcedure ==
    /\ pc = "procedures"
    /\ cursor < MaxProcedures
    /\ \E opName \in OpNames :
        \E inputSchema \in {getInputSchemaByOpName(opName, node.name)} :
            \E written \in {generateProcedure(disk.writer, opName,
                                              TemplateText(inputSchema), node.name, opName)} :
                /\ disk' = [disk EXCEPT !.writer = written]
                /\ events' = Append(events,
                                ProcedureCall(opName, getProcedureTypeByOpName(opName),
                                              inputSchema, Len(written) - Len(disk.writer)))
    /\ cursor' = cursor + 1
    /\ UNCHANGED <<pc, node, prismaVersion, prisma, result, options, warnings, dmmf>>

\* the router is complete
ProceduresDone ==
    /\ pc = "procedures"
    /\ pc' = "done"
    /\ result' = Return(disk.writer)
    /\ UNCHANGED <<node, prismaVersion, prisma, options, cursor, warnings, disk, events, dmmf>>

NextProcedure == WriteProcedure \/ ProceduresDone

SpecProcedure == InitProcedure /\ [][NextProcedure]_vars

\* C30: getProcedureTypeByOpName and getInputSchemaByOpName are defined on the
\* same operation names: for every operation name the first gives 'query' or
\* 'mutation' exactly when the second gives an input schema, both give
\* undefined otherwise, no operation is both a query and a mutation, and
\* generateProcedure writes nothing for an operation without a procedure type.
C30_HelpersAgree ==
    /\ \A k \in 1..Len(events) :
        /\ events[k].procType \in {JsString("query"), JsString("mutation")}
            <=> events[k].inputSchema # Undefined
        /\ events[k].procType \notin {JsString("query"), JsString("mutation")}
            => (events[k].procType = Undefined /\ events[k].inputSchema = Undefined)
        /\ events[k].written = (IF events[k].procType = Undefined THEN 0 ELSE 1)
    /\ Len(disk.writer) = Cardinality({k \in 1..Len(events) : events[k].procType # Undefined})
    /\ \A k, l \in 1..Len(disk.writer) :
        disk.writer[k].opType = disk.writer[l].opType
            => disk.writer[k].kind = disk.writer[l].kind
    /\ \A k \in 1..Len(disk.writer) : disk.writer[k].input # "undefined"
    /\ \A k, l \in 1..Len(ProcedureTypeCases) :
        ProcedureTypeCases[k][1] = ProcedureTypeCases[l][1]
            => ProcedureTypeCases[k][2] = ProcedureTypeCases[l][2]

\* findRaw is a query with an input schema, findUniqueOrThrow is neither and
\* writes nothing
C30_Witness ==
    /\ pc = "done"
    /\ node.name = "blogPost"
    /\ Len(events) = 2
    /\ events[1].opName = "findRaw"
    /\ events[1].inputSchema = JsString("$Schema.BlogPostInputSchema.findRawObject")
    /\ events[2].opName = "findUniqueOrThrow"
    /\ events[2].procType = Undefined
    /\ result = Return(<<Procedure("findRaw", "$Schema.BlogPostInputSchema.findRawObject",
                                   "query",
                                   "checkRead(db(ctx).blogPost.findRaw(input as any))")>>)

====
